---------------------------- MODULE Spec2Model ----------------------------
(***************************************************************************)
(* Model of the ISOBUS task-controller client examples of tractor_isobus:  *)
(*   src/unnamed/part_001  - section-control simulator (sprayer example)   *)
(*   src/examples/tag2.cpp - HASHTAG sensor client, element-scoped reads   *)
(*   src/unnamed/part_000  - HASHTAG sensor client with simulated work     *)
(*                           state                                         *)
(* Three specifications share the variables:                               *)
(*   SpecSim   - the simulator object of part_001 and its two callbacks    *)
(*   SpecParse - the serial line callback: process_nmea_line applied to    *)
(*               the lines the serial port delivers                        *)
(*   SpecLoop  - the foreground loops of the three programs, with the      *)
(*               parser thread and the signal handler                      *)
(***************************************************************************)
EXTENDS Integers, Sequences, FiniteSets, TLC

VARIABLES
    \* ---- SectionControlImplementSimulator (part_001:349-353) ----
    sectionSetpointStates,   \* std::vector<bool>, index i is element i+1
    sectionSwitchStates,     \* std::vector<bool>
    targetRate,              \* std::uint32_t, as [hi, lo] 16-bit halves
    setpointWorkState,       \* bool
    isAutoMode,              \* bool
    auth_status,             \* part_001:20, plain std::int32_t global
    \* ---- observation of the most recent call on the simulator ----
    last,                    \* [op, ctx, ddi, arg, value, ret]
    \* ---- shared atomics of tag2.cpp / part_000 ----
    gnss_auth_status,
    gnss_warning,
    \* ---- parser thread: process_nmea_line on the delivered line ----
    line,                    \* the input line, a sequence of byte values
    pcParse,                 \* "wait", "call", "store_warning", "returned",
                             \* "threw"
    outcome,                 \* "none", "ignored", "rejected", "accepted",
                             \* "invalid_argument", "out_of_range"
    checksumResult,          \* what validate_checksum did in the last call
    phtg,                    \* the local PHTGData of process_nmea_line
    \* ---- foreground loop ----
    program,                 \* "tag2", "part_000", "part_001", or "none"
    running,                 \* std::atomic_bool running
    pcMain,                  \* "idle", "start", "test", "body", "exit", "done"
    counter,                 \* part_001: int counter
    lastAuth,                \* tag2/part_000: std::int32_t lastAuth
    current_work_state,      \* part_000:31, std::atomic<std::int32_t>
    tcClientStarted,         \* part_001: bool tcClientStarted
    polls,                   \* the latest loop iterations, one record each:
                             \* [before, read, notified]
    \* ---- create_ddop ----
    pool,                    \* [null, objects]: the pool argument and the
                             \* object IDs added to it, in order
    children,                \* the add_reference_to_child_object calls made:
                             \* [element, child], in order
    adds,                    \* the add_... calls made: [op, id, result]
    retVal,                  \* bool retVal / bool ok
    pcBuild,                 \* "idle", "add", "wire", "done"
    buildResult,             \* "none", "true", "false", "aborted", "crashed"
    \* ---- main: the client and the exported file ----
    client,                  \* [configured, initialized]: the calls of
                             \* configure and initialize made so far
    builds,                  \* the calls of create_ddop main has made
    exportLog,               \* what the last export_ddop_to_xml did
    exportResult,            \* "none", "true", "false"
    file,                    \* the destination: "old", "truncated", "content"
    \* ---- accesses to the shared scalars ----
    inflight,                \* per thread, the access it is making
    \* ---- behind the loop ----
    stopped,                 \* the shutdown calls made, in order
    \* ---- part_000: the toggle of the work state ----
    loaded                   \* <<v>> once current_work_state.load() gave v
                             \* and the store is still to come, else <<>>

\* the main thread, the thread the client dispatches the callbacks on, and
\* the thread that delivers the serial lines
Threads  == {"main", "callback", "serial"}
NoAccess == [thread |-> "none"]

simVars   == <<sectionSetpointStates, sectionSwitchStates, targetRate,
               setpointWorkState, isAutoMode, last>>
parseVars == <<line, pcParse, outcome, checksumResult, phtg>>
loopVars  == <<program, running, pcMain, counter, lastAuth,
               current_work_state, tcClientStarted, polls>>
buildVars == <<pool, children, adds, retVal, pcBuild, buildResult>>
mainVars  == <<client, builds, exportLog, exportResult, file>>
vars      == <<sectionSetpointStates, sectionSwitchStates, targetRate,
               setpointWorkState, isAutoMode, auth_status, last,
               gnss_auth_status, gnss_warning, line, pcParse, outcome,
               checksumResult, phtg, program, running, pcMain, counter,
               lastAuth, current_work_state, tcClientStarted, polls,
               pool, children, adds, retVal, pcBuild, buildResult,
               client, builds, exportLog, exportResult, file, inflight,
               stopped, loaded>>

(***************************************************************************)
(* Fixed-width integers.  TLC's integers are 32-bit signed, so an int32 is *)
(* itself and a uint32 is kept as two 16-bit halves [hi, lo].              *)
(***************************************************************************)
Half     == 2^16
INT_MAX  == (2^30 - 1) * 2 + 1
INT_MIN  == (-INT_MAX) - 1

\* static_cast<std::uint32_t>(int32): the value modulo 2^32
ToU32(v) == [hi |-> (v \div Half) % Half, lo |-> v % Half]

\* variant: a pattern with the top bit set is read as the largest int32
Saturated_ToI32(u) == IF u.hi >= 32768 THEN INT_MAX
                                       ELSE u.hi * Half + u.lo

\* std::int32_t = uint32: the same 32 bits read as two's complement
ToI32(u) == IF u.hi >= 32768 THEN (u.hi - Half) * Half + u.lo
                             ELSE u.hi * Half + u.lo

\* bit k (0..31) of the two's complement pattern of an int32
BitOf(v, k) == IF k = 31 THEN (IF v < 0 THEN 1 ELSE 0) ELSE (v \div 2^k) % 2

\* what setting bit k adds to the int32 v: 0 when the bit is set already,
\* else the weight of the bit (bit 31 is the sign bit of two's complement)
BitGain(v, k) ==
    IF BitOf(v, k) = 1 THEN 0
    ELSE IF k = 31 THEN INT_MIN ELSE 2^k

\* v | (c << s) for a two-bit c and 0 <= s <= 30, on the 32-bit pattern of
\* the int32 v: the conversions between std::int32_t and std::uint32_t keep
\* the pattern, and the OR sets bit s for the low bit of c and bit s + 1 for
\* its high bit
OrShifted(v, c, s) ==
    v + (IF c % 2 = 1 THEN BitGain(v, s) ELSE 0)
      + (IF (c \div 2) % 2 = 1 THEN BitGain(v, s + 1) ELSE 0)

\* a ^ b on std::uint8_t
XorByte(a, b) ==
    LET x(k) == (((a \div 2^k) + (b \div 2^k)) % 2) * 2^k
    IN  x(0) + x(1) + x(2) + x(3) + x(4) + x(5) + x(6) + x(7)

\* int32 >> s: arithmetic shift, the floor of v / 2^s
Sar(v, s) == v \div (2^s)

\* x & 0x03
And3(x) == x % 4

(***************************************************************************)
(* Data description indices (isobus::DataDescriptionIndex, ISO 11783-11)   *)
(* used by the dispatch tables, and the proprietary auth DDI.              *)
(***************************************************************************)
SetpointVolumePerAreaApplicationRate == 1
ActualVolumePerAreaApplicationRate   == 2
ActualWorkingWidth                   == 67
ActualVolumeContent                  == 72
MaximumVolumeContent                 == 73
EffectiveTotalTime                   == 119
DeviceElementOffsetX                 == 134
DeviceElementOffsetY                 == 135
ActualWorkState                      == 141
PrescriptionControlState             == 158
SectionControlState                  == 160
ActualCondensedWorkState1_16         == 161
SetpointWorkState                    == 289
SetpointCondensedWorkState1_16       == 290
RequestDefaultProcessData            == 57343
DDI_AUTH_RESULT                      == 65432
\* a DDI that no dispatch table names
UnknownDDI                           == 9

NUMBER_SECTIONS_PER_CONDENSED_MESSAGE == 16
BOOM_WIDTH                            == 9144
MaximumVolumeContentValue             == 4000000
ActualVolumeContentValue              == 3000000
InitialTargetRate                     == 100000

ControlStateDDIs == {SectionControlState, PrescriptionControlState}

(***************************************************************************)
(* Bounds of the simulator's inputs.                                       *)
(***************************************************************************)
\* section counts 1..MaxSmallSections, and the counts around the 16 sections
\* of one condensed word
MaxSmallSections == 2

SectionCounts == (1..MaxSmallSections) \cup
                 {NUMBER_SECTIONS_PER_CONDENSED_MESSAGE,
                  NUMBER_SECTIONS_PER_CONDENSED_MESSAGE + 1}

\* the int32 whose 2-bit code at position i (0..15) is c[i]
RECURSIVE CodesValue(_, _, _)
CodesValue(c, from, n) ==
    IF n = 0 THEN 0 ELSE c[from] + 4 * CodesValue(c, from + 1, n - 1)
WordOf(c) == ToI32([hi |-> CodesValue(c, 8, 8), lo |-> CodesValue(c, 0, 8)])

\* the condensed words written: any code for section 0, and one and the same
\* code (any of the four) at all of the positions 1..15
Words == { WordOf([i \in 0..15 |-> IF i = 0 THEN first ELSE rest]) :
             first \in 0..3, rest \in 0..3 }

\* payloads of the other writes
SmallValues == {0, 1, -1}
RateValues  == {-1}
Elements    == {0, 1}
\* what the caller's value variable holds before a read
CallerValue == 7

ReadDDIs  == {MaximumVolumeContent, SectionControlState,
              PrescriptionControlState, ActualCondensedWorkState1_16,
              ActualVolumePerAreaApplicationRate, ActualWorkState,
              RequestDefaultProcessData, SetpointCondensedWorkState1_16,
              SetpointVolumePerAreaApplicationRate, DDI_AUTH_RESULT,
              EffectiveTotalTime, UnknownDDI}
WriteDDIs == {SetpointCondensedWorkState1_16,
              SetpointVolumePerAreaApplicationRate, SetpointWorkState,
              PrescriptionControlState, SectionControlState, UnknownDDI}
WriteValues(ddi) ==
    IF ddi = SetpointCondensedWorkState1_16 THEN Words
    ELSE IF ddi = SetpointVolumePerAreaApplicationRate THEN RateValues
    ELSE SmallValues

(***************************************************************************)
(* SectionControlImplementSimulator: accessors                             *)
(***************************************************************************)
\* std::vector<bool>::at(index), index counted from 0
At(vec, index) == vec[index + 1]

get_number_of_sections == Len(sectionSetpointStates) % 256

\* variant: the setpoint state whatever the mode
OnlySetpoint_get_section_actual_state(index) == At(sectionSetpointStates, index)

get_section_actual_state(index) ==
    IF isAutoMode THEN At(sectionSetpointStates, index)
                  ELSE At(sectionSwitchStates, index)

RECURSIVE CountSectionsOn(_)
CountSectionsOn(i) ==
    IF i < get_number_of_sections
    THEN (IF get_section_actual_state(i) THEN 1 ELSE 0) + CountSectionsOn(i + 1)
    ELSE 0

get_actual_number_of_sections_on == CountSectionsOn(0) % 256

get_section_setpoint_state(index) == At(sectionSetpointStates, index)

get_section_switch_state(index) == At(sectionSwitchStates, index)

\* variant: the rate whatever the sections do
Ungated_get_actual_rate == targetRate

\* targetRate * (anySectionOn ? 1 : 0), in uint32
get_actual_rate ==
    IF get_actual_number_of_sections_on > 0 THEN targetRate ELSE ToU32(0)

get_target_rate == targetRate

get_is_mode_auto == isAutoMode

\* static_cast<std::uint32_t>(bool)
BoolU32(b) == ToU32(IF b THEN 1 ELSE 0)

get_prescription_control_state == BoolU32(get_is_mode_auto)

get_section_control_state == BoolU32(get_is_mode_auto)

(***************************************************************************)
(* request_value_command_callback of part_001 (the read dispatch)          *)
(***************************************************************************)
\* the left operand of the shift for a section that exists:
\* static_cast<std::uint8_t>(sectionState)
SectionCode(sectionState) == IF sectionState THEN 1 ELSE 0

\* the left operand of the shift for a section that does not exist:
\* static_cast<std::uint32_t>(0x03)
NotInstalledCode == 3

\* variant: one bit per section
OneBitPerSection_CodeShift(i) == i

\* the shift count of section i: (2 * i)
CodeShift(i) == 2 * i

\* ActualCondensedWorkState1_16: `value` after the loop iterations 0..n-1
RECURSIVE EncodeActual(_)
EncodeActual(n) ==
    IF n = 0 THEN 0
    ELSE LET value == EncodeActual(n - 1)
             i == n - 1
         IN  IF i < get_number_of_sections
             THEN OrShifted(value, SectionCode(get_section_actual_state(i)),
                            CodeShift(i))
             ELSE OrShifted(value, NotInstalledCode, CodeShift(i))

\* SetpointCondensedWorkState1_16: `value` after the loop iterations 0..n-1
RECURSIVE EncodeSetpoint(_)
EncodeSetpoint(n) ==
    IF n = 0 THEN 0
    ELSE LET value == EncodeSetpoint(n - 1)
             i == n - 1
         IN  IF i < get_number_of_sections
             THEN OrShifted(value, SectionCode(get_section_setpoint_state(i)),
                            CodeShift(i))
             ELSE OrShifted(value, NotInstalledCode, CodeShift(i))

ActualCondensedValue == EncodeActual(NUMBER_SECTIONS_PER_CONDENSED_MESSAGE)

SetpointCondensedValue == EncodeSetpoint(NUMBER_SECTIONS_PER_CONDENSED_MESSAGE)

\* variant: the number of sections that are on
CountOf_ActualWorkStateValue == get_actual_number_of_sections_on

\* value = (sections on > 0) ? 1 : 0
ActualWorkStateValue == IF get_actual_number_of_sections_on > 0 THEN 1 ELSE 0

\* the value the callback leaves in `value`; v0 is what the caller put there
request_value_command_callback(elementNumber, DDI, v0, parentPointer) ==
    IF parentPointer = "null" THEN v0
    ELSE CASE DDI = MaximumVolumeContent -> MaximumVolumeContentValue
           [] DDI = ActualVolumeContent -> ActualVolumeContentValue
           [] DDI = SectionControlState -> ToI32(get_section_control_state)
           [] DDI = PrescriptionControlState -> ToI32(get_prescription_control_state)
           [] DDI = ActualCondensedWorkState1_16 -> ActualCondensedValue
           [] DDI = ActualVolumePerAreaApplicationRate -> ToI32(get_actual_rate)
           [] DDI = ActualWorkState -> ActualWorkStateValue
           [] DDI \in {DeviceElementOffsetX, DeviceElementOffsetY,
                       RequestDefaultProcessData} -> 0
           [] DDI = ActualWorkingWidth -> BOOM_WIDTH
           [] DDI = SetpointCondensedWorkState1_16 -> SetpointCondensedValue
           [] DDI = SetpointVolumePerAreaApplicationRate -> ToI32(get_target_rate)
           [] DDI = DDI_AUTH_RESULT -> ToI32(ToU32(auth_status))
           [] OTHER -> 0

(***************************************************************************)
(* value_command_callback of part_001 (the write dispatch)                 *)
(***************************************************************************)
\* variant: only the low bit of the code is looked at
OnlyLowBit_DecodeSection(processVariableValue, i) ==
    1 = (Sar(processVariableValue, 2 * i) % 2)

\* variant: every code but 00 switches the section on
NonZero_DecodeSection(processVariableValue, i) ==
    0 # And3(Sar(processVariableValue, 2 * i))

\* 0x01 == (processVariableValue >> (2 * i) & 0x03)
DecodeSection(processVariableValue, i) ==
    1 = And3(Sar(processVariableValue, 2 * i))

\* the setpoint vector after the decode loop, started at i
RECURSIVE DecodeSetpoints(_, _, _)
DecodeSetpoints(states, processVariableValue, i) ==
    IF i < NUMBER_SECTIONS_PER_CONDENSED_MESSAGE /\ i < Len(states) % 256
    THEN DecodeSetpoints(
             [states EXCEPT ![i + 1] = DecodeSection(processVariableValue, i)],
             processVariableValue, i + 1)
    ELSE states

\* variant: only the payload 1 selects Auto
OnlyOne_ControlStateIsAuto(processVariableValue) == processVariableValue = 1

\* sim->set_is_mode_auto(processVariableValue != 0)
ControlStateIsAuto(processVariableValue) == processVariableValue # 0

\* variant: a call without a context is refused
NullFails_Observed(op, ctx, ddi, arg, value) ==
    [op |-> op, ctx |-> ctx, ddi |-> ddi, arg |-> arg, value |-> value,
     ret |-> ctx # "null"]

\* variant: every payload other than 0 sets the work state
Nonzero_WorkStateFromPayload(processVariableValue) == processVariableValue # 0

\* sim->setpointWorkState = (0x01 == processVariableValue)
WorkStateFromPayload(processVariableValue) == processVariableValue = 1

Observed(op, ctx, ddi, arg, value) ==
    [op |-> op, ctx |-> ctx, ddi |-> ddi, arg |-> arg, value |-> value,
     ret |-> TRUE]

\* variant: a read also clears the work state setpoint
Clearing_RequestValueCommand ==
    \E elementNumber \in Elements, DDI \in ReadDDIs :
        /\ last' = Observed("read", "sim", DDI, CallerValue,
                     request_value_command_callback(elementNumber, DDI,
                                                    CallerValue, "sim"))
        /\ setpointWorkState' = FALSE
        /\ UNCHANGED <<sectionSetpointStates, sectionSwitchStates, targetRate,
                       isAutoMode>>
        /\ UNCHANGED <<auth_status, gnss_auth_status, gnss_warning,
                       parseVars, loopVars, buildVars, mainVars, inflight, stopped, loaded>>

\* a read through the callback registered with &rateController
RequestValueCommand ==
    \E elementNumber \in Elements, DDI \in ReadDDIs :
        /\ last' = Observed("read", "sim", DDI, CallerValue,
                     request_value_command_callback(elementNumber, DDI,
                                                    CallerValue, "sim"))
        /\ UNCHANGED <<sectionSetpointStates, sectionSwitchStates, targetRate,
                       setpointWorkState, isAutoMode>>
        /\ UNCHANGED <<auth_status, gnss_auth_status, gnss_warning,
                       parseVars, loopVars, buildVars, mainVars, inflight, stopped, loaded>>

\* a write through the callback registered with &rateController
ValueCommand ==
    \E elementNumber \in Elements, DDI \in WriteDDIs :
      \E processVariableValue \in WriteValues(DDI) :
        /\ last' = Observed("write", "sim", DDI, processVariableValue, 0)
        /\ sectionSetpointStates' =
             IF DDI = SetpointCondensedWorkState1_16
             THEN DecodeSetpoints(sectionSetpointStates, processVariableValue, 0)
             ELSE sectionSetpointStates
        /\ targetRate' =
             IF DDI = SetpointVolumePerAreaApplicationRate
             THEN ToU32(processVariableValue) ELSE targetRate
        /\ setpointWorkState' =
             IF DDI = SetpointWorkState
             THEN WorkStateFromPayload(processVariableValue)
             ELSE setpointWorkState
        /\ isAutoMode' =
             IF DDI \in ControlStateDDIs
             THEN ControlStateIsAuto(processVariableValue)
             ELSE isAutoMode
        /\ UNCHANGED sectionSwitchStates
        /\ UNCHANGED <<auth_status, gnss_auth_status, gnss_warning,
                       parseVars, loopVars, buildVars, mainVars, inflight, stopped, loaded>>

\* the indices the switch toggles are tried on: the last section, and the
\* first index past the vector (where at() throws)
SwitchIndices == {get_number_of_sections - 1, get_number_of_sections}

\* set_section_switch_state(index, value); at() throws std::out_of_range
\* past the end and nothing is written
SetSectionSwitchState ==
    \E index \in SwitchIndices, value \in BOOLEAN :
        /\ IF index < Len(sectionSwitchStates)
           THEN /\ sectionSwitchStates' =
                     [sectionSwitchStates EXCEPT ![index + 1] = value]
                /\ last' = Observed("switch", "sim", 0, index, 0)
           ELSE /\ UNCHANGED sectionSwitchStates
                /\ last' = [Observed("switch", "sim", 0, index, 0)
                              EXCEPT !.ret = FALSE]
        /\ UNCHANGED <<sectionSetpointStates, targetRate, setpointWorkState,
                       isAutoMode>>
        /\ UNCHANGED <<auth_status, gnss_auth_status, gnss_warning,
                       parseVars, loopVars, buildVars, mainVars, inflight, stopped, loaded>>

\* get_section_actual_state(index) called on the simulator; at() throws
\* std::out_of_range past the end
GetSectionActualState ==
    \E index \in SwitchIndices :
        /\ last' = IF index < Len(sectionSetpointStates)
                   THEN Observed("get_actual", "sim", 0, index,
                          IF get_section_actual_state(index) THEN 1 ELSE 0)
                   ELSE [Observed("get_actual", "sim", 0, index, 0)
                           EXCEPT !.ret = FALSE]
        /\ UNCHANGED <<sectionSetpointStates, sectionSwitchStates, targetRate,
                       setpointWorkState, isAutoMode>>
        /\ UNCHANGED <<auth_status, gnss_auth_status, gnss_warning,
                       parseVars, loopVars, buildVars, mainVars, inflight, stopped, loaded>>

(***************************************************************************)
(* Sentence parser (tag2.cpp:65-141, the same text at part_000:75-151).    *)
(* A std::string is a sequence of byte values; position i of the C++ text  *)
(* is element i + 1 of the sequence.                                       *)
(***************************************************************************)
Ascii ==
    ("$" :> 36) @@ ("*" :> 42) @@ ("," :> 44) @@ (" " :> 32) @@ ("+" :> 43)
    @@ ("-" :> 45) @@ ("0" :> 48) @@ ("1" :> 49) @@ ("2" :> 50) @@ ("3" :> 51)
    @@ ("4" :> 52) @@ ("5" :> 53) @@ ("6" :> 54) @@ ("7" :> 55) @@ ("8" :> 56)
    @@ ("9" :> 57) @@ ("A" :> 65) @@ ("B" :> 66) @@ ("C" :> 67) @@ ("D" :> 68)
    @@ ("E" :> 69) @@ ("F" :> 70) @@ ("G" :> 71) @@ ("H" :> 72) @@ ("K" :> 75)
    @@ ("L" :> 76) @@ ("P" :> 80) @@ ("R" :> 82) @@ ("T" :> 84) @@ ("X" :> 88)
    @@ ("Z" :> 90) @@ ("a" :> 97) @@ ("b" :> 98) @@ ("c" :> 99) @@ ("d" :> 100)
    @@ ("e" :> 101) @@ ("f" :> 102) @@ ("x" :> 120)

\* the bytes of a text given as a tuple of one-character strings
Bytes(text) == [i \in 1..Len(text) |-> Ascii[text[i]]]

\* std::string::npos, what find returns when the byte does not occur
npos == -1

\* sentence.find(ch): the first position holding ch
find(sentence, ch) ==
    LET hits == {i \in 0..(Len(sentence) - 1) : sentence[i + 1] = ch}
    IN  IF hits = {} THEN npos
        ELSE CHOOSE i \in hits : \A j \in hits : i <= j

\* a - b on size_t: below zero it wraps to a value past every length, which
\* is kept as top
SizeSub(a, b, top) == IF a >= b THEN a - b ELSE top

\* sentence.substr(pos, count) for pos <= size: count is clipped to the end
substr(sentence, pos, count) ==
    LET stop == IF pos + count < Len(sentence) THEN pos + count
                ELSE Len(sentence)
    IN  SubSeq(sentence, pos + 1, stop)

\* isspace in the C locale
isspace(c) == c \in {32, 9, 10, 11, 12, 13}

\* the value of c as a digit of strtol; 99 when it is none
DigitValue(c) ==
    IF c \in 48..57 THEN c - 48
    ELSE IF c \in 97..122 THEN c - 87
    ELSE IF c \in 65..90 THEN c - 55
    ELSE 99

RECURSIVE SkipSpace(_, _)
SkipSpace(str, i) ==
    IF i < Len(str) /\ isspace(str[i + 1]) THEN SkipSpace(str, i + 1) ELSE i

\* the digit loop of strtol from position i: the value is accumulated below
\* zero, and range is lost once it would pass lower
RECURSIVE Accumulate(_, _, _, _, _)
Accumulate(str, i, base, lower, acc) ==
    IF i < Len(str) /\ DigitValue(str[i + 1]) < base
    THEN LET d == DigitValue(str[i + 1])
         IN  IF (~acc.range) \/ acc.value < (lower + d + (base - 1)) \div base
             THEN Accumulate(str, i + 1, base, lower,
                             [any |-> TRUE, range |-> FALSE, value |-> 0])
             ELSE Accumulate(str, i + 1, base, lower,
                             [any |-> TRUE, range |-> TRUE,
                              value |-> acc.value * base - d])
    ELSE acc

\* std::stoi(str, nullptr, base): leading white space, an optional sign, for
\* base 16 an optional 0x, then digits up to the first byte that is none;
\* std::invalid_argument without a digit, std::out_of_range outside int
stoi(str, base) ==
    LET start    == SkipSpace(str, 0)
        negative == start < Len(str) /\ str[start + 1] = Ascii["-"]
        signed   == start < Len(str)
                    /\ str[start + 1] \in {Ascii["-"], Ascii["+"]}
        first    == IF signed THEN start + 1 ELSE start
        prefixed == /\ base = 16
                    /\ first + 2 < Len(str)
                    /\ str[first + 1] = Ascii["0"]
                    /\ str[first + 2] \in {Ascii["x"], Ascii["X"]}
                    /\ DigitValue(str[first + 3]) < 16
        digits   == IF prefixed THEN first + 2 ELSE first
        lower    == IF negative THEN INT_MIN ELSE -INT_MAX
        r        == Accumulate(str, digits, base, lower,
                               [any |-> FALSE, range |-> TRUE, value |-> 0])
    IN  IF ~r.any THEN [status |-> "invalid_argument", value |-> 0]
        ELSE IF ~r.range THEN [status |-> "out_of_range", value |-> 0]
        ELSE [status |-> "ok",
              value |-> IF negative THEN r.value ELSE -r.value]

\* the loop of validate_checksum from position i on: calc_cs ^= sentence[i]
RECURSIVE ChecksumLoop(_, _, _, _)
ChecksumLoop(sentence, i, star_pos, calc_cs) ==
    IF i < star_pos /\ calc_cs \in 0..255
    THEN ChecksumLoop(sentence, i + 1, star_pos,
                      XorByte(calc_cs, sentence[i + 1]))
    ELSE calc_cs

\* std::uint8_t calc_cs = 0; for (size_t i = 1; i < star_pos; i++) ...
CalcChecksum(sentence, star_pos) == ChecksumLoop(sentence, 1, star_pos, 0)

\* what a call does: it returns a value, or an exception leaves it
Returned(value) == [status |-> "ok", ret |-> value]
Thrown(what)    == [status |-> what, ret |-> FALSE]

\* variant: the trailer is required, the checksum is not compared
NoChecksum_validate_checksum(sentence) ==
    LET star_pos == find(sentence, Ascii["*"])
    IN  Returned(star_pos # npos /\ star_pos + 2 < Len(sentence))

\* validate_checksum(sentence): what it returns, or the exception of stoi
validate_checksum(sentence) ==
    LET star_pos == find(sentence, Ascii["*"])
    IN  IF star_pos = npos \/ star_pos + 2 >= Len(sentence)
        THEN Returned(FALSE)
        ELSE LET calc_cs == CalcChecksum(sentence, star_pos)
                 cs_str  == substr(sentence, star_pos + 1, 2)
                 recv_cs == stoi(cs_str, 16)
             IN  IF recv_cs.status # "ok" THEN Thrown(recv_cs.status)
                 ELSE Returned(calc_cs = recv_cs.value)

\* PHTGData with its member initialisers (tag2.cpp:31-38)
DefaultPHTGData ==
    [date |-> <<>>, time |-> <<>>, system |-> <<>>, service |-> <<>>,
     auth_result |-> 0, warning |-> 0]

\* the tokens std::getline(ss, token, ',') yields until it fails: a text
\* that ends right after a comma, or an empty text, yields no further token
RECURSIVE Tokens(_)
Tokens(body) ==
    IF body = <<>> THEN <<>>
    ELSE LET comma == find(body, Ascii[","])
         IN  IF comma = npos THEN <<body>>
             ELSE <<substr(body, 0, comma)>>
                  \o Tokens(substr(body, comma + 1, Len(body)))

\* token.empty() ? 0 : std::stoi(token)
IntField(token) ==
    IF token = <<>> THEN [status |-> "ok", value |-> 0] ELSE stoi(token, 10)

\* the while loop of parse_phtg from token number field on
RECURSIVE ParseFields(_, _, _)
ParseFields(tokens, field, data) ==
    IF field >= Len(tokens)
    THEN [status |-> "ok", field |-> field, data |-> data]
    ELSE LET token == tokens[field + 1]
             int   == IntField(token)
         IN  CASE field = 0 ->
                    ParseFields(tokens, 1, [data EXCEPT !.date = token])
               [] field = 1 ->
                    ParseFields(tokens, 2, [data EXCEPT !.time = token])
               [] field = 2 ->
                    ParseFields(tokens, 3, [data EXCEPT !.system = token])
               [] field = 3 ->
                    ParseFields(tokens, 4, [data EXCEPT !.service = token])
               [] field = 4 ->
                    IF int.status # "ok"
                    THEN [status |-> int.status, field |-> field, data |-> data]
                    ELSE ParseFields(tokens, 5,
                            [data EXCEPT !.auth_result = int.value])
               [] field = 5 ->
                    IF int.status # "ok"
                    THEN [status |-> int.status, field |-> field, data |-> data]
                    ELSE ParseFields(tokens, 6,
                            [data EXCEPT !.warning = int.value])
               [] OTHER -> ParseFields(tokens, field + 1, data)

PHTG == Bytes(<<"$", "P", "H", "T", "G">>)

\* parse_phtg(sentence, data): [status, ret, data]
parse_phtg(sentence, data) ==
    IF Len(sentence) < 5
    THEN [status |-> "ok", ret |-> FALSE, data |-> data]
    ELSE IF substr(sentence, 0, 5) # PHTG
    THEN [status |-> "ok", ret |-> FALSE, data |-> data]
    ELSE LET valid == validate_checksum(sentence)
         IN  IF valid.status # "ok"
             THEN [status |-> valid.status, ret |-> FALSE, data |-> data]
             ELSE IF ~valid.ret
             THEN [status |-> "ok", ret |-> FALSE, data |-> data]
             ELSE LET star_pos == find(sentence, Ascii["*"])
                      body == substr(sentence, 6,
                                     SizeSub(star_pos, 6, Len(sentence)))
                      r    == ParseFields(Tokens(body), 0, data)
                  IN  IF star_pos = npos
                      THEN [status |-> "ok", ret |-> FALSE, data |-> data]
                      ELSE [status |-> r.status,
                            ret |-> r.status = "ok" /\ r.field >= 6,
                            data |-> r.data]

\* line.size() >= 5 && line.substr(0, 5) == "$PHTG"
HasTag(text) == Len(text) >= 5 /\ substr(text, 0, 5) = PHTG

(***************************************************************************)
(* The lines the serial port delivers                                      *)
(***************************************************************************)
UpperHex == <<"0", "1", "2", "3", "4", "5", "6", "7",
              "8", "9", "A", "B", "C", "D", "E", "F">>
LowerHex == <<"0", "1", "2", "3", "4", "5", "6", "7",
              "8", "9", "a", "b", "c", "d", "e", "f">>
HexByte(digits, x) == Bytes(<<digits[(x \div 16) + 1], digits[(x % 16) + 1]>>)
HexLow(x) == Bytes(<<UpperHex[(x % 16) + 1]>>)

RECURSIVE Join(_)
Join(fields) ==
    IF Len(fields) = 0 THEN <<>>
    ELSE IF Len(fields) = 1 THEN Bytes(fields[1])
    ELSE Bytes(fields[1]) \o Bytes(<<",">>) \o Join(Tail(fields))

\* what follows the checksummed part whose XOR is x
TrailerKinds == {"good", "lower", "bad", "none", "short", "nonhex", "half",
                 "spaced", "negative", "prefix", "extra"}
Trailer(kind, x) ==
    CASE kind = "good"     -> Bytes(<<"*">>) \o HexByte(UpperHex, x)
      [] kind = "lower"    -> Bytes(<<"*">>) \o HexByte(LowerHex, x)
      [] kind = "bad"      -> Bytes(<<"*">>) \o HexByte(UpperHex, (x + 1) % 256)
      [] kind = "none"     -> <<>>
      [] kind = "short"    -> Bytes(<<"*">>) \o HexLow(x)
      [] kind = "nonhex"   -> Bytes(<<"*", "Z", "Z">>)
      [] kind = "half"     -> Bytes(<<"*">>) \o HexLow(x) \o Bytes(<<"Z">>)
      [] kind = "spaced"   -> Bytes(<<"*", " ">>) \o HexLow(x)
      [] kind = "negative" -> Bytes(<<"*", "-">>) \o HexLow(x)
      [] kind = "prefix"   -> Bytes(<<"*", "0", "x">>)
      [] kind = "extra"    -> Bytes(<<"*">>) \o HexByte(UpperHex, x)
                                \o Bytes(<<"0">>)

\* head followed by a trailer of the kind for the XOR of head past its
\* first byte
Sentence(head, kind) == head \o Trailer(kind, CalcChecksum(head, Len(head)))

Tagged(fields) == PHTG \o Bytes(<<",">>) \o Join(fields)

AuthTokens == {<<>>, <<"0">>, <<"1">>, <<"-", "1">>, <<"7">>, <<"x">>,
               <<"1", "x">>, <<" ", "5">>,
               <<"2", "1", "4", "7", "4", "8", "3", "6", "4", "7">>,
               <<"2", "1", "4", "7", "4", "8", "3", "6", "4", "8">>}
WarnTokens == {<<>>, <<"0">>, <<"3">>, <<"x">>}
DateTokens == {<<"A">>, <<"2">>, <<"K">>}
FieldA     == <<"A">>

\* shapes other than six plain fields behind the tag
OddHeads ==
    { Tagged(<<FieldA, FieldA, FieldA, FieldA, <<"1">> >>),
      Tagged(<<FieldA, FieldA, FieldA, FieldA, <<"1">>, <<"3">>, <<"Z">> >>),
      Tagged(<<FieldA, FieldA, FieldA, FieldA, <<"1">> >>) \o Bytes(<<",">>),
      Tagged(<<FieldA, FieldA, FieldA, FieldA, <<"x">> >>),
      Tagged(<<>>),
      Tagged(<< <<"2", "3", "0", "1", "0", "1">>,
                <<"1", "2", "0", "0", "0", "0">>,
                <<"G", "A", "L">>, <<"R", "T", "K">>, <<"1">>, <<"0">> >>),
      PHTG \o Bytes(<<"X">>)
           \o Join(<<FieldA, FieldA, FieldA, FieldA, <<"7">>, <<"3">> >>),
      Bytes(<<"$", "G", "P", "T", "G", ",">>)
           \o Join(<<FieldA, FieldA, FieldA, FieldA, <<"7">>, <<"3">> >>),
      Bytes(<<"$", "P", "H", "T">>),
      PHTG }

\* the '*' directly behind the tag, six comma-separated texts behind it
StarAtFive ==
    Sentence(PHTG, "good")
       \o Bytes(<<",">>)
       \o Join(<<FieldA, FieldA, FieldA, <<"7">>, <<"3">> >>)

\* a sentence damaged on the wire: the byte at index i replaced by b
Corrupt(sentence, i, b) == [sentence EXCEPT ![i + 1] = b]
CorruptionBytes == {Ascii[","], Ascii["*"], Ascii["A"], Ascii["0"], Ascii["Z"]}
SoundSentences ==
    { Sentence(Tagged(<<date, FieldA, FieldA, FieldA, <<"1">>, <<"0">> >>),
               "good") : date \in {FieldA, <<"0", "B">>} }
CorruptionsOf(sentence) ==
    UNION { { Corrupt(sentence, i, b) :
                 b \in CorruptionBytes \ {sentence[i + 1]} } :
            i \in 1..(find(sentence, Ascii["*"]) - 1) }
CorruptedLines == UNION { CorruptionsOf(s) : s \in SoundSentences }
Lines ==
    { Sentence(Tagged(<<FieldA, FieldA, FieldA, FieldA, auth, warn>>), "good") :
         auth \in AuthTokens, warn \in WarnTokens }
    \cup { Sentence(Tagged(<<date, FieldA, FieldA, FieldA, auth, warn>>), kind) :
              date \in DateTokens, auth \in {<<"1">>, <<"7">>},
              warn \in {<<"0">>, <<"3">>}, kind \in TrailerKinds }
    \cup { Sentence(head, "good") : head \in OddHeads }
    \cup { StarAtFive, <<>> }
    \cup CorruptedLines

(***************************************************************************)
(* The serial line callback (tag2.cpp:281, part_000:313)                   *)
(***************************************************************************)
\* the serial port hands the next line to the callback
ReadLine(lines) ==
    /\ pcParse = "wait"
    /\ program # "part_001"
    /\ pcMain # "done"
    /\ \E text \in lines : line' = text
    /\ pcParse' = "call"
    /\ outcome' = "none"
    /\ checksumResult' = "none"
    /\ phtg' = DefaultPHTGData
    /\ UNCHANGED <<gnss_auth_status, gnss_warning, auth_status, simVars, loopVars,
                   buildVars, mainVars, inflight, stopped, loaded>>

\* control is back in the port's reader and the line is gone; whether the
\* reader goes on after an exception left the callback is up to the port
ReturnToReader ==
    /\ pcParse \in {"returned", "threw"}
    /\ pcParse' = "wait"
    /\ line' = <<>>
    /\ outcome' = "none"
    /\ checksumResult' = "none"
    /\ phtg' = DefaultPHTGData
    /\ UNCHANGED <<gnss_auth_status, gnss_warning, auth_status, simVars, loopVars,
                   buildVars, mainVars, inflight, stopped, loaded>>

Verdict(call) ==
    IF call.status # "ok" THEN call.status
    ELSE IF call.ret THEN "true" ELSE "false"

\* variant: the accepting branch stores the warning where the auth result
\* is stored
WarningFirst_ProcessNmeaLine ==
    /\ pcParse = "call"
    /\ IF ~HasTag(line)
       THEN /\ outcome' = "ignored"
            /\ checksumResult' = "not_called"
            /\ pcParse' = "returned"
            /\ UNCHANGED <<phtg, gnss_auth_status, gnss_warning>>
       ELSE \E r \in {parse_phtg(line, phtg)} :
                /\ checksumResult' = Verdict(validate_checksum(line))
                /\ phtg' = r.data
                /\ IF r.status # "ok"
                   THEN /\ outcome' = r.status
                        /\ pcParse' = "threw"
                        /\ UNCHANGED <<gnss_auth_status, gnss_warning>>
                   ELSE IF ~r.ret
                   THEN /\ outcome' = "rejected"
                        /\ pcParse' = "returned"
                        /\ UNCHANGED <<gnss_auth_status, gnss_warning>>
                   ELSE /\ outcome' = "accepting"
                        /\ pcParse' = "store_warning"
                        /\ gnss_warning' = r.data.warning
                        /\ UNCHANGED gnss_auth_status
    /\ UNCHANGED <<line, auth_status, simVars, loopVars, buildVars, mainVars, inflight, stopped, loaded>>

\* process_nmea_line up to and including the store of the auth result
ProcessNmeaLine ==
    /\ pcParse = "call"
    /\ IF ~HasTag(line)
       THEN /\ outcome' = "ignored"
            /\ checksumResult' = "not_called"
            /\ pcParse' = "returned"
            /\ UNCHANGED <<phtg, gnss_auth_status>>
       ELSE \E r \in {parse_phtg(line, phtg)} :   \* r: what the call did
                /\ checksumResult' = Verdict(validate_checksum(line))
                /\ phtg' = r.data
                /\ IF r.status # "ok"
                   THEN /\ outcome' = r.status
                        /\ pcParse' = "threw"
                        /\ UNCHANGED gnss_auth_status
                   ELSE IF ~r.ret
                   THEN /\ outcome' = "rejected"
                        /\ pcParse' = "returned"
                        /\ UNCHANGED gnss_auth_status
                   ELSE /\ outcome' = "accepting"
                        /\ pcParse' = "store_warning"
                        /\ gnss_auth_status' = r.data.auth_result
    /\ UNCHANGED <<line, gnss_warning, auth_status, simVars, loopVars, buildVars, mainVars, inflight, stopped, loaded>>

\* gnss_warning.store(phtg.warning), and the return
StoreWarning ==
    /\ pcParse = "store_warning"
    /\ gnss_warning' = phtg.warning
    /\ outcome' = "accepted"
    /\ pcParse' = "returned"
    /\ UNCHANGED <<line, checksumResult, phtg, gnss_auth_status, auth_status,
                   simVars, loopVars, buildVars, mainVars, inflight, stopped, loaded>>

\* the parts of the state a specification does not use
ParseIdle == /\ line = <<>>
             /\ pcParse = "wait"
             /\ outcome = "none"
             /\ checksumResult = "none"
             /\ phtg = DefaultPHTGData
LoopIdle  == /\ program = "none"
             /\ running = TRUE
             /\ pcMain = "idle"
             /\ counter = 0
             /\ lastAuth = 0
             /\ current_work_state = 0
             /\ tcClientStarted = FALSE
             /\ polls = <<>>
BuildIdle == /\ pool = [null |-> FALSE, objects |-> <<>>]
             /\ children = <<>>
             /\ adds = <<>>
             /\ retVal = TRUE
             /\ pcBuild = "idle"
             /\ buildResult = "none"
MainIdle  == /\ client = [configured |-> 0, initialized |-> 0]
             /\ builds = 0
             /\ exportLog = <<>>
             /\ exportResult = "none"
             /\ file = "old"
             /\ inflight = [t \in Threads |-> NoAccess]
             /\ stopped = <<>>
             /\ loaded = <<>>
SimIdle   == /\ sectionSetpointStates = <<>>
             /\ sectionSwitchStates = <<>>
             /\ targetRate = ToU32(InitialTargetRate)
             /\ setpointWorkState = TRUE
             /\ isAutoMode = TRUE
             /\ last = Observed("none", "sim", 0, 0, 0)

\* SectionControlImplementSimulator(numberOfSections), with the member
\* initialisers of part_001:349-353; auth_status is 0 or 1 (part_001:435-439)
InitSim ==
    /\ \E numberOfSections \in SectionCounts :
         /\ sectionSetpointStates = [i \in 1..numberOfSections |-> FALSE]
         /\ sectionSwitchStates = [i \in 1..numberOfSections |-> FALSE]
    /\ targetRate = ToU32(InitialTargetRate)
    /\ setpointWorkState = TRUE
    /\ isAutoMode = TRUE
    /\ auth_status \in {0, 1}
    /\ last = Observed("none", "sim", 0, 0, 0)
    /\ gnss_auth_status = 0
    /\ gnss_warning = 0
    /\ ParseIdle
    /\ BuildIdle
    /\ MainIdle
    /\ LoopIdle

NextSim == \/ RequestValueCommand
           \/ ValueCommand
           \/ SetSectionSwitchState
           \/ GetSectionActualState

SpecSim == InitSim /\ [][NextSim]_vars

\* the globals of tag2.cpp:25-27 before the first line arrives
InitParse ==
    /\ SimIdle
    /\ auth_status = 0
    /\ gnss_auth_status = 0
    /\ gnss_warning = 0
    /\ ParseIdle
    /\ BuildIdle
    /\ MainIdle
    /\ LoopIdle

NextParse == \/ ReadLine(Lines)
             \/ ProcessNmeaLine
             \/ StoreWarning
             \/ ReturnToReader

SpecParse == InitParse /\ [][NextParse]_vars

(***************************************************************************)
(* Foreground loops: tag2.cpp:351-368, part_000:384-431, part_001:416-444  *)
(***************************************************************************)
\* polls keeps the latest PollWindow iterations; the counter of part_001
\* stops the loop at MaxCounter
PollWindow == 5
MaxCounter == 21

SensorPrograms == {"tag2", "part_000"}
Programs       == SensorPrograms \cup {"part_001"}

Push(history, entry) ==
    IF Len(history) < PollWindow THEN Append(history, entry)
    ELSE Append(Tail(history), entry)

\* one iteration: the auth value seen before it, the value it read, and
\* whether it called on_value_changed_trigger for DDI_AUTH_RESULT
Poll(before, read, notified) ==
    [before |-> before, read |-> read, notified |-> notified]

\* signal_handler: running = false
SignalHandler ==
    /\ program \in Programs
    /\ pcMain # "done"
    /\ running' = FALSE
    /\ UNCHANGED <<program, pcMain, counter, lastAuth, current_work_state,
                   tcClientStarted, polls>>
    /\ UNCHANGED <<auth_status, gnss_auth_status, gnss_warning, simVars, parseVars,
                   buildVars, mainVars, inflight, stopped, loaded>>

\* std::int32_t lastAuth = gnss_auth_status.load()
StartSensor ==
    /\ program \in SensorPrograms
    /\ pcMain = "start"
    /\ lastAuth' = gnss_auth_status
    /\ pcMain' = "test"
    /\ UNCHANGED <<program, running, counter, current_work_state,
                   tcClientStarted, polls>>
    /\ UNCHANGED <<auth_status, gnss_auth_status, gnss_warning, simVars, parseVars,
                   buildVars, mainVars, inflight, stopped, loaded>>

\* part_001: int counter = 0; bool tcClientStarted = false
StartSimulator ==
    /\ program = "part_001"
    /\ pcMain = "start"
    /\ counter' = 0
    /\ tcClientStarted' = FALSE
    /\ pcMain' = "test"
    /\ UNCHANGED <<program, running, lastAuth, current_work_state, polls>>
    /\ UNCHANGED <<auth_status, gnss_auth_status, gnss_warning, simVars, parseVars,
                   buildVars, mainVars, inflight, stopped, loaded>>

\* while (running)
LoopTest ==
    /\ pcMain = "test"
    /\ pcMain' = IF running THEN "body" ELSE "exit"
    /\ UNCHANGED <<program, running, counter, lastAuth, current_work_state,
                   tcClientStarted, polls>>
    /\ UNCHANGED <<auth_status, gnss_auth_status, gnss_warning, simVars, parseVars,
                   buildVars, mainVars, inflight, stopped, loaded>>

\* variant: only a rising value counts as a change
Rising_AuthChanged(a, lastSeen) == a > lastSeen

\* a != lastAuth
AuthChanged(a, lastSeen) == a # lastSeen

\* tag2.cpp:359-367
PollTag2 ==
    /\ program = "tag2"
    /\ pcMain = "body"
    /\ LET a == gnss_auth_status
       IN  /\ polls' = Push(polls, Poll(lastAuth, a, AuthChanged(a, lastAuth)))
           /\ lastAuth' = a
    /\ pcMain' = "test"
    /\ UNCHANGED <<program, running, counter, current_work_state, tcClientStarted>>
    /\ UNCHANGED <<auth_status, gnss_auth_status, gnss_warning, simVars, parseVars,
                   buildVars, mainVars, inflight, stopped, loaded>>

\* part_000:402-430; whether toggle_interval has passed is up to the clock
PollPart000 ==
    /\ program = "part_000"
    /\ pcMain = "body"
    /\ \E elapsed \in BOOLEAN :
          current_work_state' = IF elapsed THEN 1 - current_work_state
                                ELSE current_work_state
    /\ LET a == gnss_auth_status
       IN  /\ polls' = Push(polls, Poll(lastAuth, a, AuthChanged(a, lastAuth)))
           /\ lastAuth' = a
    /\ pcMain' = "test"
    /\ UNCHANGED <<program, running, counter, tcClientStarted>>
    /\ UNCHANGED <<auth_status, gnss_auth_status, gnss_warning, simVars, parseVars,
                   buildVars, mainVars, inflight, stopped, loaded>>

\* if (auth_status != 0) auth_status = 0; else auth_status = 1
Toggled(status) == IF status # 0 THEN 0 ELSE 1

\* part_001:417-443; create_ddop may fail in the first iteration, which
\* leaves the loop
IteratePart001 ==
    /\ program = "part_001"
    /\ pcMain = "body"
    /\ counter < MaxCounter
    /\ counter' = counter + 1
    /\ \E created \in BOOLEAN :
          IF ~tcClientStarted /\ ~created
          THEN /\ pcMain' = "exit"
               /\ UNCHANGED <<tcClientStarted, auth_status, polls>>
          ELSE /\ tcClientStarted' = TRUE
               /\ auth_status' = IF counter' % 10 = 0 THEN Toggled(auth_status)
                                 ELSE auth_status
               /\ polls' = Push(polls, Poll(auth_status, auth_status', TRUE))
               /\ pcMain' = "test"
    /\ UNCHANGED <<program, running, lastAuth, current_work_state>>
    /\ UNCHANGED <<gnss_auth_status, gnss_warning, simVars, parseVars, buildVars, mainVars, inflight, stopped, loaded>>

\* variant: the hardware is stopped before the client is terminated
HardwareFirst_ShutdownSteps(prog) ==
    IF prog \in SensorPrograms
    THEN <<"serial_stop", "can_stop", "terminate">>
    ELSE <<"can_stop", "terminate">>

\* nmea_serial->stop() in tag2.cpp and part_000, then tcClient->terminate()
\* and CANHardwareInterface::stop() in all three
ShutdownSteps(prog) ==
    IF prog \in SensorPrograms
    THEN <<"serial_stop", "terminate", "can_stop">>
    ELSE <<"terminate", "can_stop">>

\* the shutdown behind the loop: the serial port and the client are stopped
ExitLoop ==
    /\ pcMain = "exit"
    /\ pcMain' = "done"
    /\ stopped' = stopped \o ShutdownSteps(program)
    /\ UNCHANGED <<program, running, counter, lastAuth, current_work_state,
                   tcClientStarted, polls>>
    /\ UNCHANGED <<auth_status, gnss_auth_status, gnss_warning, simVars, parseVars,
                   buildVars, mainVars, inflight, loaded>>

\* the lines the sensor sends while the loop runs
LoopLines ==
    { Sentence(Tagged(<<FieldA, FieldA, FieldA, FieldA, <<"1">>, <<"0">> >>), "good"),
      Sentence(Tagged(<<FieldA, FieldA, FieldA, FieldA, <<"0">>, <<"0">> >>), "good"),
      Sentence(Tagged(<<FieldA, FieldA, FieldA, FieldA, <<"1">>, <<"0">> >>), "bad") }

InitLoop ==
    /\ SimIdle
    /\ auth_status = 0
    /\ gnss_auth_status = 0
    /\ gnss_warning = 0
    /\ ParseIdle
    /\ BuildIdle
    /\ MainIdle
    /\ program \in Programs
    /\ running = TRUE
    /\ pcMain = "start"
    /\ counter = 0
    /\ lastAuth = 0
    /\ current_work_state = 0
    /\ tcClientStarted = FALSE
    /\ polls = <<>>

NextLoop == \/ SignalHandler
            \/ StartSensor
            \/ StartSimulator
            \/ LoopTest
            \/ PollTag2
            \/ PollPart000
            \/ IteratePart001
            \/ ExitLoop
            \/ ReadLine(LoopLines)
            \/ ProcessNmeaLine
            \/ StoreWarning
            \/ ReturnToReader

SpecLoop == InitLoop /\ [][NextLoop]_vars

\* the main thread is scheduled again after every sleep_for, so each of
\* its steps is taken when it stays enabled
SpecLoopLive ==
    /\ InitLoop
    /\ [][NextLoop]_vars
    /\ WF_vars(StartSensor)
    /\ WF_vars(StartSimulator)
    /\ WF_vars(LoopTest)
    /\ WF_vars(PollTag2)
    /\ WF_vars(PollPart000)
    /\ WF_vars(IteratePart001)
    /\ WF_vars(ExitLoop)

(***************************************************************************)
(* Task controller callbacks: tag2.cpp:164-195, part_000:169-208, and      *)
(* part_001:246-347 called without a simulator                             *)
(***************************************************************************)
ELEMENT_NUMBER == 1

SessionElements == {ELEMENT_NUMBER, 2}
SessionDDIs     == {DDI_AUTH_RESULT, ActualWorkState, RequestDefaultProcessData,
                    EffectiveTotalTime, UnknownDDI}
SessionWriteDDIs == {DDI_AUTH_RESULT, UnknownDDI}
SessionWriteValues == {0, 1}
\* the void * argument: both programs register nullptr
Contexts == {"null", "other"}

\* variant: the stored warning is reported for the auth DDI
Warning_tag2_request_value_command_callback(elementNumber, DDI) ==
    IF elementNumber # ELEMENT_NUMBER THEN 0
    ELSE IF DDI = DDI_AUTH_RESULT THEN gnss_warning
    ELSE 0

\* variant: the element number is not looked at
Unscoped_tag2_request_value_command_callback(elementNumber, DDI) ==
    IF DDI = DDI_AUTH_RESULT THEN gnss_auth_status ELSE 0

\* tag2.cpp:164-181: the value stored through the reference
tag2_request_value_command_callback(elementNumber, DDI) ==
    IF elementNumber # ELEMENT_NUMBER THEN 0
    ELSE IF DDI = DDI_AUTH_RESULT THEN gnss_auth_status
    ELSE 0

\* variant: the total time counts instead of being 0
Minutes_part_000_request_value_command_callback(elementNumber, DDI) ==
    CASE DDI = RequestDefaultProcessData -> 0
      [] DDI = DDI_AUTH_RESULT           -> gnss_auth_status
      [] DDI = ActualWorkState           -> current_work_state
      [] DDI = EffectiveTotalTime        -> 1
      [] OTHER                           -> 0

\* part_000:169-194: the value stored through the reference
part_000_request_value_command_callback(elementNumber, DDI) ==
    CASE DDI = RequestDefaultProcessData -> 0
      [] DDI = DDI_AUTH_RESULT           -> gnss_auth_status
      [] DDI = ActualWorkState           -> current_work_state
      [] DDI = EffectiveTotalTime        -> 0
      [] OTHER                           -> 0

\* what a call of a sensor callback was given and gave back; both callbacks
\* end in return true
SessionCall(op, ctx, elementNumber, ddi, arg, value) ==
    [op |-> op, ctx |-> ctx, element |-> elementNumber, ddi |-> ddi,
     arg |-> arg, value |-> value, ret |-> TRUE]

\* the client asks a sensor program for a value
SensorRequestValue ==
    /\ program \in SensorPrograms
    /\ \E elementNumber \in SessionElements, DDI \in SessionDDIs,
          parentPointer \in Contexts :
         last' = SessionCall("read", parentPointer, elementNumber, DDI,
                   CallerValue,
                   IF program = "tag2"
                   THEN tag2_request_value_command_callback(elementNumber, DDI)
                   ELSE part_000_request_value_command_callback(elementNumber,
                                                                DDI))
    /\ UNCHANGED <<sectionSetpointStates, sectionSwitchStates, targetRate,
                   setpointWorkState, isAutoMode>>
    /\ UNCHANGED <<auth_status, gnss_auth_status, gnss_warning, parseVars,
                   loopVars, buildVars, mainVars, inflight, stopped, loaded>>

\* the client sends a sensor program a value: return true and nothing else
SensorValueCommand ==
    /\ program \in SensorPrograms
    /\ \E elementNumber \in SessionElements, DDI \in SessionWriteDDIs,
          processVariableValue \in SessionWriteValues,
          parentPointer \in Contexts :
         last' = SessionCall("write", parentPointer, elementNumber, DDI,
                             processVariableValue, 0)
    /\ UNCHANGED <<sectionSetpointStates, sectionSwitchStates, targetRate,
                   setpointWorkState, isAutoMode>>
    /\ UNCHANGED <<auth_status, gnss_auth_status, gnss_warning, parseVars,
                   loopVars, buildVars, mainVars, inflight, stopped, loaded>>

\* part_001:246-315 with parentPointer == nullptr: value is left as it was
NullContextRequestValue ==
    /\ \E elementNumber \in Elements, DDI \in ReadDDIs :
         last' = Observed("read", "null", DDI, CallerValue,
                   request_value_command_callback(elementNumber, DDI,
                                                  CallerValue, "null"))
    /\ UNCHANGED <<sectionSetpointStates, sectionSwitchStates, targetRate,
                   setpointWorkState, isAutoMode>>
    /\ UNCHANGED <<auth_status, gnss_auth_status, gnss_warning, parseVars,
                   loopVars, buildVars, mainVars, inflight, stopped, loaded>>

\* part_001:317-347 with parentPointer == nullptr: the switch is skipped
NullContextValueCommand ==
    /\ \E elementNumber \in Elements, DDI \in WriteDDIs :
        \E processVariableValue \in WriteValues(DDI) :
         last' = Observed("write", "null", DDI, processVariableValue, 0)
    /\ UNCHANGED <<sectionSetpointStates, sectionSwitchStates, targetRate,
                   setpointWorkState, isAutoMode>>
    /\ UNCHANGED <<auth_status, gnss_auth_status, gnss_warning, parseVars,
                   loopVars, buildVars, mainVars, inflight, stopped, loaded>>

\* the sentence of the protocol description, and the lines of a session
ExampleSentence ==
    Sentence(Tagged(<< <<"2", "3", "0", "1", "0", "1">>,
                       <<"1", "2", "0", "0", "0", "0">>,
                       <<"G", "A", "L">>, <<"R", "T", "K">>,
                       <<"1">>, <<"0">> >>), "good")
SessionLines ==
    { ExampleSentence,
      Sentence(Tagged(<<FieldA, FieldA, FieldA, FieldA, <<"7">>, <<"3">> >>), "good"),
      Sentence(Tagged(<<FieldA, FieldA, FieldA, FieldA, <<"3">>, <<"0">> >>), "bad") }

\* one of the three programs with its client connected; current_work_state
\* of part_000 is 0 or 1 (part_000:406), auth_status of part_001 likewise
InitSession ==
    /\ program \in Programs
    /\ \E numberOfSections \in
            (IF program = "part_001" THEN {MaxSmallSections} ELSE {0}) :
         /\ sectionSetpointStates = [i \in 1..numberOfSections |-> FALSE]
         /\ sectionSwitchStates = [i \in 1..numberOfSections |-> FALSE]
    /\ targetRate = ToU32(InitialTargetRate)
    /\ setpointWorkState = TRUE
    /\ isAutoMode = TRUE
    /\ auth_status \in (IF program = "part_001" THEN {0, 1} ELSE {0})
    /\ last = Observed("none", "sim", 0, 0, 0)
    /\ gnss_auth_status = 0
    /\ gnss_warning = 0
    /\ ParseIdle
    /\ BuildIdle
    /\ MainIdle
    /\ running = TRUE
    /\ pcMain = "idle"
    /\ counter = 0
    /\ lastAuth = 0
    /\ current_work_state \in (IF program = "part_000" THEN {0, 1} ELSE {0})
    /\ tcClientStarted = (program = "part_001")
    /\ polls = <<>>

NextSession == \/ SensorRequestValue
               \/ SensorValueCommand
               \/ ReadLine(SessionLines)
               \/ ProcessNmeaLine
               \/ StoreWarning
               \/ ReturnToReader
               \/ program = "part_001" /\ RequestValueCommand
               \/ program = "part_001" /\ ValueCommand
               \/ program = "part_001" /\ SetSectionSwitchState
               \/ program = "part_001" /\ GetSectionActualState
               \/ program = "part_001" /\ NullContextRequestValue
               \/ program = "part_001" /\ NullContextValueCommand

SpecSession == InitSession /\ [][NextSession]_vars

(***************************************************************************)
(* create_ddop: tag2.cpp:197-257, part_000:210-289, part_001:117-244       *)
(***************************************************************************)
Step(op, id) == [op |-> op, id |-> id]
Ref(element, child) == [element |-> element, child |-> child]

\* the add_... calls of each create_ddop, in the order of the text; objects
\* are named by their enumerator
BuildSteps(prog) ==
    CASE prog = "tag2" ->
           << Step("add_device", "Device"),
              Step("add_device_element", "MainDeviceElement"),
              Step("add_device_value_presentation", "SurfacePresentation"),
              Step("add_device_value_presentation", "TimePresentation"),
              Step("add_device_value_presentation", "RawPresentation"),
              Step("add_device_process_data", "AuthResultPD"),
              Step("add_device_process_data", "ActualWorkState"),
              Step("add_device_process_data", "DeviceTotalTime") >>
      [] prog = "part_000" ->
           << Step("add_device", "Device"),
              Step("add_device_element", "MainDeviceElement"),
              Step("add_device_value_presentation", "SurfacePresentation"),
              Step("add_device_value_presentation", "TimePresentation"),
              Step("add_device_value_presentation", "RawPresentation"),
              Step("add_device_process_data", "RequestDefaultProcessData"),
              Step("add_device_process_data", "AuthResultPD"),
              Step("add_device_process_data", "ActualWorkState"),
              Step("add_device_process_data", "DeviceTotalTime") >>
      [] OTHER ->
           << Step("add_device", "Device"),
              Step("add_device_element", "MainDeviceElement"),
              Step("add_device_process_data", "DeviceActualWorkState"),
              Step("add_device_process_data", "HashtagParameter"),
              Step("add_device_process_data", "RequestDefaultProcessData"),
              Step("add_device_process_data", "DeviceTotalTime"),
              Step("add_device_element", "Connector"),
              Step("add_device_process_data", "ConnectorXOffset"),
              Step("add_device_process_data", "ConnectorYOffset"),
              Step("add_device_property", "ConnectorType"),
              Step("add_device_value_presentation", "ShortWidthPresentation"),
              Step("add_device_value_presentation", "TimePresentation") >>

\* the elements whose lookup is tested before anything is linked
TestedElements(prog) ==
    CASE prog = "tag2"     -> {"SensorElement"}
      [] prog = "part_000" -> {"MainDeviceElement"}
      [] OTHER             -> {}

\* the add_reference_to_child_object calls, in the order of the text
BuildRefs(prog) ==
    CASE prog = "tag2" ->
           << Ref("MainDeviceElement", "SensorElement"),
              Ref("MainDeviceElement", "ActualWorkState"),
              Ref("SensorElement", "AuthResultPD"),
              Ref("SensorElement", "DeviceTotalTime") >>
      [] prog = "part_000" ->
           << Ref("MainDeviceElement", "RequestDefaultProcessData"),
              Ref("MainDeviceElement", "ActualWorkState"),
              Ref("MainDeviceElement", "AuthResultPD"),
              Ref("MainDeviceElement", "DeviceTotalTime") >>
      [] OTHER ->
           << Ref("MainDeviceElement", "DeviceActualWorkState"),
              Ref("MainDeviceElement", "SetpointWorkState"),
              Ref("MainDeviceElement", "DeviceTotalTime"),
              Ref("MainDeviceElement", "RequestDefaultProcessData"),
              Ref("MainDeviceElement", "HashtagParameter"),
              Ref("Connector", "ConnectorXOffset"),
              Ref("Connector", "ConnectorYOffset"),
              Ref("Connector", "ConnectorType"),
              Ref("SprayBoom", "BoomXOffset"),
              Ref("SprayBoom", "BoomYOffset"),
              Ref("SprayBoom", "BoomZOffset"),
              Ref("SprayBoom", "ActualWorkingWidth"),
              Ref("SprayBoom", "SectionControlState"),
              Ref("SprayBoom", "AreaTotal"),
              Ref("SprayBoom", "ActualCondensedWorkingState1To16"),
              Ref("SprayBoom", "SetpointCondensedWorkingState1To16"),
              Ref("LiquidProduct", "TankCapacity"),
              Ref("LiquidProduct", "TankVolume"),
              Ref("LiquidProduct", "LifetimeApplicationVolumeTotal"),
              Ref("LiquidProduct", "PrescriptionControlState"),
              Ref("LiquidProduct", "ActualCulturalPractice"),
              Ref("LiquidProduct", "TargetRate"),
              Ref("LiquidProduct", "ActualRate") >>

\* enum class HashtagDDOPObjectIDs (tag2.cpp:144-157, part_000:154-164)
HashtagDDOPObjectIDs ==
    ("Device" :> 0) @@ ("MainDeviceElement" :> 1) @@ ("SensorElement" :> 2)
    @@ ("RequestDefaultProcessData" :> 5) @@ ("AuthResultPD" :> 10)
    @@ ("DeviceTotalTime" :> 20) @@ ("ActualWorkState" :> 21)
    @@ ("RawPresentation" :> 50) @@ ("SurfacePresentation" :> 51)
    @@ ("TimePresentation" :> 52)

\* enum class ImplementDDOPObjectIDs (part_001:30-69): the enumerators in
\* front of Section1 and those behind SectionWidthMax count up by one; the
\* four section ranges take MAX_NUMBER_SECTIONS_SUPPORTED values each
MAX_NUMBER_SECTIONS_SUPPORTED == 256
ImplementHead ==
    << "Device", "MainDeviceElement", "DeviceActualWorkState",
       "RequestDefaultProcessData", "DeviceTotalTime", "Connector",
       "ConnectorXOffset", "ConnectorYOffset", "ConnectorType", "SprayBoom",
       "ActualWorkState", "ActualWorkingWidth", "AreaTotal",
       "SetpointWorkState", "SectionControlState", "BoomXOffset",
       "BoomYOffset", "BoomZOffset" >>
ImplementTail ==
    << "ActualCondensedWorkingState1To16",
       "SetpointCondensedWorkingState1To16", "LiquidProduct", "TankCapacity",
       "TankVolume", "LifetimeApplicationVolumeTotal",
       "PrescriptionControlState", "ActualCulturalPractice", "TargetRate",
       "TimePresentation", "ShortWidthPresentation", "HashtagParameter" >>
PositionIn(names, name) == CHOOSE i \in 1..Len(names) : names[i] = name
ImplementDDOPObjectIDs(name) ==
    IF \E i \in 1..Len(ImplementHead) : ImplementHead[i] = name
    THEN PositionIn(ImplementHead, name) - 1
    ELSE Len(ImplementHead) + 4 * MAX_NUMBER_SECTIONS_SUPPORTED
            + PositionIn(ImplementTail, name) - 1

\* the 16-bit object ID an enumerator stands for
ObjectID(prog, name) ==
    IF prog \in SensorPrograms THEN HashtagDDOPObjectIDs[name]
    ELSE ImplementDDOPObjectIDs(name)

\* pool->get_object_by_id(id) finds an object
InPool(objects, id) == \E i \in 1..Len(objects) : objects[i] = id

\* the number of leading calls of refs made on elements that were found
RECURSIVE LinkedPrefix(_, _, _)
LinkedPrefix(objects, refs, i) ==
    IF i > Len(refs) THEN Len(refs)
    ELSE IF ~InPool(objects, refs[i].element) THEN i - 1
    ELSE LinkedPrefix(objects, refs, i + 1)

\* create_ddop is entered: the null test of tag2 and part_000, the assert
\* of part_001, clear(), and the flag set to true
EnterCreateDdop ==
    /\ program \in Programs
    /\ pcBuild \in {"idle", "done"}
    /\ buildResult \notin {"aborted", "crashed"}
    /\ \E null \in (IF program \in SensorPrograms THEN BOOLEAN ELSE {FALSE}) :
         IF null
         THEN /\ pool' = [null |-> TRUE, objects |-> <<>>]
              /\ pcBuild' = "done"
              /\ buildResult' = "false"
              /\ adds' = <<>>
              /\ UNCHANGED <<children, retVal>>
         ELSE IF program = "part_001" /\ get_number_of_sections = 0
         THEN /\ pcBuild' = "done"
              /\ buildResult' = "aborted"
              /\ retVal' = TRUE
              /\ adds' = <<>>
              /\ UNCHANGED <<pool, children>>
         ELSE /\ pool' = [null |-> FALSE, objects |-> <<>>]
              /\ children' = <<>>
              /\ adds' = <<>>
              /\ retVal' = TRUE
              /\ pcBuild' = "add"
              /\ buildResult' = "none"

\* create_ddop called on its own
StartBuild ==
    /\ EnterCreateDdop
    /\ UNCHANGED <<auth_status, gnss_auth_status, gnss_warning, simVars,
                   parseVars, loopVars, mainVars, inflight, stopped, loaded>>

\* the next add_... call: the pool takes the object or refuses it, and
\* retVal &= / ok &= keeps the flag false once a call has returned false
AddObject ==
    /\ pcBuild = "add"
    /\ \E result \in BOOLEAN :
         LET step == BuildSteps(program)[Len(adds) + 1]
         IN  /\ adds' = Append(adds, [op |-> step.op, id |-> step.id,
                                      result |-> result])
             /\ pool' = IF result
                        THEN [pool EXCEPT !.objects = Append(@, step.id)]
                        ELSE pool
             /\ retVal' = (retVal /\ result)
    /\ pcBuild' = IF Len(adds') = Len(BuildSteps(program)) THEN "wire"
                  ELSE "add"
    /\ UNCHANGED <<children, buildResult>>
    /\ UNCHANGED <<auth_status, gnss_auth_status, gnss_warning, simVars,
                   parseVars, loopVars, mainVars, inflight, stopped, loaded>>

\* behind the adds: the flag is tested, the elements are looked up and the
\* children are linked to them.  part_001 calls through boom and product
\* without testing them; a call through an element that was not found is
\* undefined behaviour, which ends the process or goes unnoticed
LinkObjects ==
    /\ pcBuild = "wire"
    /\ pcBuild' = "done"
    /\ IF ~retVal
       THEN /\ buildResult' = "false"
            /\ UNCHANGED children
       ELSE IF \E e \in TestedElements(program) : ~InPool(pool.objects, e)
       THEN /\ buildResult' = "true"
            /\ UNCHANGED children
       ELSE LET refs   == BuildRefs(program)
                linked == LinkedPrefix(pool.objects, refs, 1)
            IN  /\ children' = SubSeq(refs, 1, linked)
                /\ IF linked = Len(refs)
                   THEN buildResult' = "true"
                   ELSE buildResult' \in {"crashed", "true"}
    /\ UNCHANGED <<pool, adds, retVal>>
    /\ UNCHANGED <<auth_status, gnss_auth_status, gnss_warning, simVars,
                   parseVars, loopVars, mainVars, inflight, stopped, loaded>>

\* a program about to build its pool; the simulator of part_001 has been
\* constructed
InitBuild ==
    /\ program \in Programs
    /\ \E numberOfSections \in
            (IF program = "part_001" THEN {MaxSmallSections} ELSE {0}) :
         /\ sectionSetpointStates = [i \in 1..numberOfSections |-> FALSE]
         /\ sectionSwitchStates = [i \in 1..numberOfSections |-> FALSE]
    /\ targetRate = ToU32(InitialTargetRate)
    /\ setpointWorkState = TRUE
    /\ isAutoMode = TRUE
    /\ auth_status = 0
    /\ last = Observed("none", "sim", 0, 0, 0)
    /\ gnss_auth_status = 0
    /\ gnss_warning = 0
    /\ ParseIdle
    /\ running = TRUE
    /\ pcMain = "idle"
    /\ counter = 0
    /\ lastAuth = 0
    /\ current_work_state = 0
    /\ tcClientStarted = FALSE
    /\ polls = <<>>
    /\ BuildIdle
    /\ MainIdle

NextBuild == \/ StartBuild
             \/ AddObject
             \/ LinkObjects

SpecBuild == InitBuild /\ [][NextBuild]_vars

(***************************************************************************)
(* export_ddop_to_xml (tag2.cpp:40-63, part_000:50-73) and the start of    *)
(* main: the pool is built, then the client is configured and initialized  *)
(* and the pool is exported                                                *)
(***************************************************************************)
\* whether generate_task_data_iso_xml succeeds, whether the std::ofstream
\* is open and whether operator<< wrote the content is up to the library
\* and the file system; a std::ofstream that opens truncates the file
export_ddop_to_xml(ddopNull, generated, opened, written, before) ==
    IF ddopNull
    THEN [ret |-> FALSE, log |-> <<>>, file |-> before]
    ELSE IF ~generated
    THEN [ret |-> FALSE, log |-> <<"generate">>, file |-> before]
    ELSE IF ~opened
    THEN [ret |-> FALSE, log |-> <<"generate", "open">>, file |-> before]
    ELSE [ret |-> TRUE, log |-> <<"generate", "open", "write", "close">>,
          file |-> IF written THEN "content" ELSE "truncated"]

ResultName(ret) == IF ret THEN "true" ELSE "false"

\* export_ddop_to_xml called on the pool as it is
ExportDdop ==
    /\ program \in SensorPrograms
    /\ pcBuild \in {"idle", "done"}
    /\ \E generated, opened, written \in BOOLEAN :
         \E r \in {export_ddop_to_xml(pool.null, generated, opened, written,
                                      file)} :
            /\ exportLog' = r.log
            /\ exportResult' = ResultName(r.ret)
            /\ file' = r.file
    /\ UNCHANGED <<client, builds>>
    /\ UNCHANGED <<auth_status, gnss_auth_status, gnss_warning, simVars,
                   parseVars, loopVars, buildVars, inflight, stopped, loaded>>

InitExport ==
    /\ SimIdle
    /\ auth_status = 0
    /\ gnss_auth_status = 0
    /\ gnss_warning = 0
    /\ ParseIdle
    /\ program \in SensorPrograms
    /\ running = TRUE
    /\ pcMain = "idle"
    /\ counter = 0
    /\ lastAuth = 0
    /\ current_work_state = 0
    /\ tcClientStarted = FALSE
    /\ polls = <<>>
    /\ BuildIdle
    /\ MainIdle

NextExport == \/ StartBuild
              \/ AddObject
              \/ LinkObjects
              \/ ExportDdop

SpecExport == InitExport /\ [][NextExport]_vars

\* main calls create_ddop on the pool std::make_shared gave it: tag2.cpp
\* 333-334 and part_000:365-366 before the loop, part_001:417-419 in the
\* iteration that finds tcClientStarted false
MainCreateDdop ==
    /\ IF program = "part_001"
       THEN /\ pcMain = "body"
            /\ ~tcClientStarted
            /\ counter < MaxCounter
            /\ counter' = counter + 1
       ELSE /\ pcMain = "start"
            /\ UNCHANGED counter
    /\ EnterCreateDdop
    /\ ~pool'.null
    /\ builds' = builds + 1
    /\ pcMain' = "create"
    /\ UNCHANGED <<program, running, lastAuth, current_work_state,
                   tcClientStarted, polls>>
    /\ UNCHANGED <<client, exportLog, exportResult, file>>
    /\ UNCHANGED <<auth_status, gnss_auth_status, gnss_warning, simVars,
                   parseVars, inflight, stopped, loaded>>

\* variant: the result of create_ddop is not looked at
Unchecked_MainUseDdop ==
    /\ pcMain = "create"
    /\ pcBuild = "done"
    /\ buildResult \in {"true", "false"}
    /\ client' = [configured |-> client.configured + 1,
                  initialized |-> client.initialized + 1]
    /\ IF program = "part_001"
       THEN /\ tcClientStarted' = TRUE
            /\ auth_status' = IF counter % 10 = 0
                              THEN Toggled(auth_status)
                              ELSE auth_status
            /\ polls' = Push(polls, Poll(auth_status, auth_status', TRUE))
            /\ UNCHANGED <<lastAuth, exportLog, exportResult, file>>
       ELSE /\ lastAuth' = gnss_auth_status
            /\ \E generated, opened, written \in BOOLEAN :
                 \E r \in {export_ddop_to_xml(pool.null, generated,
                                              opened, written, file)} :
                    /\ exportLog' = r.log
                    /\ exportResult' = ResultName(r.ret)
                    /\ file' = r.file
            /\ UNCHANGED <<tcClientStarted, auth_status, polls>>
    /\ pcMain' = "test"
    /\ UNCHANGED <<program, running, counter, current_work_state, builds>>
    /\ UNCHANGED <<gnss_auth_status, gnss_warning, simVars, parseVars,
                   buildVars, inflight, stopped, loaded>>

\* create_ddop has returned.  tag2.cpp:334-356 and part_000:366-389: on
\* false, return 4; on true the callbacks are added, the client is
\* configured and initialized, lastAuth is loaded and the pool is exported.
\* part_001:419-432: on true the client is configured and initialized and
\* tcClientStarted is set, then the iteration goes on (433-443); on false,
\* break
MainUseDdop ==
    /\ pcMain = "create"
    /\ pcBuild = "done"
    /\ buildResult \in {"true", "false"}
    /\ IF buildResult = "true"
       THEN /\ client' = [configured |-> client.configured + 1,
                          initialized |-> client.initialized + 1]
            /\ IF program = "part_001"
               THEN /\ tcClientStarted' = TRUE
                    /\ auth_status' = IF counter % 10 = 0
                                      THEN Toggled(auth_status)
                                      ELSE auth_status
                    /\ polls' = Push(polls,
                                     Poll(auth_status, auth_status', TRUE))
                    /\ UNCHANGED <<lastAuth, exportLog, exportResult, file>>
               ELSE /\ lastAuth' = gnss_auth_status
                    /\ \E generated, opened, written \in BOOLEAN :
                         \E r \in {export_ddop_to_xml(pool.null, generated,
                                                      opened, written,
                                                      file)} :
                            /\ exportLog' = r.log
                            /\ exportResult' = ResultName(r.ret)
                            /\ file' = r.file
                    /\ UNCHANGED <<tcClientStarted, auth_status, polls>>
            /\ pcMain' = "test"
       ELSE /\ pcMain' = IF program = "part_001" THEN "exit" ELSE "done"
            /\ UNCHANGED <<client, tcClientStarted, auth_status, polls,
                           lastAuth, exportLog, exportResult, file>>
    /\ UNCHANGED <<program, running, counter, current_work_state, builds>>
    /\ UNCHANGED <<gnss_auth_status, gnss_warning, simVars, parseVars,
                   buildVars, inflight, stopped, loaded>>

\* a program at the top of main; the simulator of part_001 has been
\* constructed
InitMain ==
    /\ program \in Programs
    /\ \E numberOfSections \in
            (IF program = "part_001" THEN {MaxSmallSections} ELSE {0}) :
         /\ sectionSetpointStates = [i \in 1..numberOfSections |-> FALSE]
         /\ sectionSwitchStates = [i \in 1..numberOfSections |-> FALSE]
    /\ targetRate = ToU32(InitialTargetRate)
    /\ setpointWorkState = TRUE
    /\ isAutoMode = TRUE
    /\ auth_status = 0
    /\ last = Observed("none", "sim", 0, 0, 0)
    /\ gnss_auth_status = 0
    /\ gnss_warning = 0
    /\ ParseIdle
    /\ running = TRUE
    /\ pcMain = "start"
    /\ counter = 0
    /\ lastAuth = 0
    /\ current_work_state = 0
    /\ tcClientStarted = FALSE
    /\ polls = <<>>
    /\ BuildIdle
    /\ MainIdle

\* the loop does not start before the pool is built; part_001 builds it in
\* the loop
NextMain == \/ SignalHandler
            \/ StartSimulator
            \/ MainCreateDdop
            \/ AddObject
            \/ LinkObjects
            \/ MainUseDdop
            \/ LoopTest
            \/ PollTag2
            \/ PollPart000
            \/ (tcClientStarted /\ IteratePart001)
            \/ ExitLoop

SpecMain == InitMain /\ [][NextMain]_vars

(***************************************************************************)
(* The accesses the three programs make to the scalars that more than one  *)
(* thread can reach                                                        *)
(***************************************************************************)
Site(thread, location, write, atomic, at) ==
    [thread |-> thread, location |-> location, write |-> write,
     atomic |-> atomic, at |-> at]

\* part_001: auth_status is a std::int32_t (line 20); targetRate,
\* setpointWorkState and isAutoMode are plain members (351-353)
SitesPart001 ==
    { Site("main", "auth_status", FALSE, FALSE, 435),
      Site("main", "auth_status", TRUE, FALSE, 436),
      Site("main", "auth_status", TRUE, FALSE, 438),
      Site("callback", "auth_status", FALSE, FALSE, 305),
      Site("callback", "targetRate", FALSE, FALSE, 102),
      Site("callback", "targetRate", FALSE, FALSE, 105),
      Site("callback", "targetRate", TRUE, FALSE, 333),
      Site("callback", "setpointWorkState", FALSE, FALSE, 107),
      Site("callback", "setpointWorkState", TRUE, FALSE, 336),
      Site("callback", "isAutoMode", FALSE, FALSE, 77),
      Site("callback", "isAutoMode", FALSE, FALSE, 111),
      Site("callback", "isAutoMode", TRUE, FALSE, 109) }

\* tag2.cpp: gnss_auth_status and gnss_warning are std::atomic (26-27)
SitesTag2 ==
    { Site("serial", "gnss_auth_status", TRUE, TRUE, 137),
      Site("serial", "gnss_warning", TRUE, TRUE, 138),
      Site("callback", "gnss_auth_status", FALSE, TRUE, 173),
      Site("main", "gnss_auth_status", FALSE, TRUE, 351),
      Site("main", "gnss_warning", FALSE, TRUE, 352),
      Site("main", "gnss_auth_status", FALSE, TRUE, 359),
      Site("main", "gnss_warning", FALSE, TRUE, 360) }

\* part_000: the same two and current_work_state are std::atomic (28-31)
SitesPart000 ==
    { Site("serial", "gnss_auth_status", TRUE, TRUE, 147),
      Site("serial", "gnss_warning", TRUE, TRUE, 148),
      Site("callback", "gnss_auth_status", FALSE, TRUE, 178),
      Site("callback", "current_work_state", FALSE, TRUE, 182),
      Site("main", "gnss_auth_status", FALSE, TRUE, 384),
      Site("main", "gnss_warning", FALSE, TRUE, 385),
      Site("main", "current_work_state", FALSE, TRUE, 406),
      Site("main", "current_work_state", TRUE, TRUE, 406),
      Site("main", "gnss_auth_status", FALSE, TRUE, 410),
      Site("main", "gnss_warning", FALSE, TRUE, 411),
      Site("main", "current_work_state", FALSE, TRUE, 418),
      Site("main", "current_work_state", FALSE, TRUE, 421) }

Sites(prog) == CASE prog = "part_001" -> SitesPart001
                 [] prog = "tag2"     -> SitesTag2
                 [] prog = "part_000" -> SitesPart000

\* a thread starts one of its accesses; nothing orders it against what
\* the other threads are doing
BeginAccess ==
    /\ program \in Programs
    /\ \E site \in Sites(program) :
         /\ inflight[site.thread] = NoAccess
         /\ inflight' = [inflight EXCEPT ![site.thread] = site]
    /\ UNCHANGED <<auth_status, gnss_auth_status, gnss_warning, simVars,
                   parseVars, loopVars, buildVars, mainVars, stopped, loaded>>

\* the access is over
EndAccess ==
    /\ \E t \in Threads :
         /\ inflight[t] # NoAccess
         /\ inflight' = [inflight EXCEPT ![t] = NoAccess]
    /\ UNCHANGED <<auth_status, gnss_auth_status, gnss_warning, simVars,
                   parseVars, loopVars, buildVars, mainVars, stopped, loaded>>

InitAccess == InitMain

NextAccess == BeginAccess \/ EndAccess

SpecAccess == InitAccess /\ [][NextAccess]_vars

(***************************************************************************)
(* The simulator is constructed (part_001:71-72), then its pool is built   *)
(***************************************************************************)
\* the section counts a caller may configure
ConfiguredCounts == {1, MaxSmallSections, MAX_NUMBER_SECTIONS_SUPPORTED - 1,
                     MAX_NUMBER_SECTIONS_SUPPORTED}

\* the conversion of the argument to the parameter's type, std::uint8_t
ToU8(n) == n % 256

\* SectionControlImplementSimulator(numberOfSections): both vectors get
\* numberOfSections entries, all false
Construct ==
    /\ program = "part_001"
    /\ last.op = "none"
    /\ \E configured \in ConfiguredCounts :
         \E numberOfSections \in {ToU8(configured)} :
            /\ sectionSetpointStates' = [i \in 1..numberOfSections |-> FALSE]
            /\ sectionSwitchStates' = [i \in 1..numberOfSections |-> FALSE]
            /\ last' = Observed("construct", "sim", 0, configured, 0)
    /\ UNCHANGED <<targetRate, setpointWorkState, isAutoMode>>
    /\ UNCHANGED <<auth_status, gnss_auth_status, gnss_warning, parseVars,
                   loopVars, buildVars, mainVars, inflight, stopped, loaded>>

InitConstruct ==
    /\ SimIdle
    /\ auth_status = 0
    /\ gnss_auth_status = 0
    /\ gnss_warning = 0
    /\ ParseIdle
    /\ program = "part_001"
    /\ running = TRUE
    /\ pcMain = "idle"
    /\ counter = 0
    /\ lastAuth = 0
    /\ current_work_state = 0
    /\ tcClientStarted = FALSE
    /\ polls = <<>>
    /\ BuildIdle
    /\ MainIdle

NextConstruct == \/ Construct
                 \/ (last.op = "construct" /\ StartBuild)
                 \/ AddObject
                 \/ LinkObjects

SpecConstruct == InitConstruct /\ [][NextConstruct]_vars

(***************************************************************************)
(* The write callbacks of the three programs, on a simulator with fewer    *)
(* and with more sections than one condensed message carries               *)
(***************************************************************************)
WriteSectionCounts == {MaxSmallSections,
                       NUMBER_SECTIONS_PER_CONDENSED_MESSAGE + 1}

InitWrite ==
    /\ program \in Programs
    /\ \E numberOfSections \in
            (IF program = "part_001" THEN WriteSectionCounts ELSE {0}) :
         /\ sectionSetpointStates = [i \in 1..numberOfSections |-> FALSE]
         /\ sectionSwitchStates = [i \in 1..numberOfSections |-> FALSE]
    /\ targetRate = ToU32(InitialTargetRate)
    /\ setpointWorkState = TRUE
    /\ isAutoMode = TRUE
    /\ auth_status \in (IF program = "part_001" THEN {0, 1} ELSE {0})
    /\ last = Observed("none", "sim", 0, 0, 0)
    /\ gnss_auth_status \in (IF program = "part_001" THEN {0} ELSE {0, 1})
    /\ gnss_warning = 0
    /\ ParseIdle
    /\ BuildIdle
    /\ MainIdle
    /\ running = TRUE
    /\ pcMain = "idle"
    /\ counter = 0
    /\ lastAuth = 0
    /\ current_work_state \in (IF program = "part_000" THEN {0, 1} ELSE {0})
    /\ tcClientStarted = (program = "part_001")
    /\ polls = <<>>

NextWrite == \/ SensorValueCommand
             \/ program = "part_001" /\ ValueCommand
             \/ program = "part_001" /\ SetSectionSwitchState

SpecWrite == InitWrite /\ [][NextWrite]_vars

(***************************************************************************)
(* The target rate written and read back over the whole range of int32     *)
(***************************************************************************)
RoundTripValues == {INT_MIN, INT_MIN + 1, -InitialTargetRate, -1, 0, 1,
                    InitialTargetRate, INT_MAX - 1, INT_MAX}

\* part_001:332-334: sim->targetRate = processVariableValue
RateValueCommand ==
    /\ \E elementNumber \in Elements, processVariableValue \in RoundTripValues :
         /\ last' = Observed("write", "sim",
                             SetpointVolumePerAreaApplicationRate,
                             processVariableValue, 0)
         /\ targetRate' = ToU32(processVariableValue)
    /\ UNCHANGED <<sectionSetpointStates, sectionSwitchStates,
                   setpointWorkState, isAutoMode>>
    /\ UNCHANGED <<auth_status, gnss_auth_status, gnss_warning, parseVars,
                   loopVars, buildVars, mainVars, inflight, stopped, loaded>>

NextRate == \/ RateValueCommand
            \/ RequestValueCommand
            \/ ValueCommand

\* the simulator of part_001 as constructed
InitRate == InitBuild /\ program = "part_001"

SpecRate == InitRate /\ [][NextRate]_vars

(***************************************************************************)
(* part_000:405-408, the toggle of the work state taken apart: the load    *)
(* and the store are two atomic operations, and the callbacks run between  *)
(***************************************************************************)
\* variant: the loaded value is counted up
CountedUp_Toggle(value) == value + 1

\* 1 - current_work_state.load()
Toggle(value) == 1 - value

\* current_work_state.load(), when toggle_interval has passed
ToggleLoad ==
    /\ program = "part_000"
    /\ loaded = <<>>
    /\ loaded' = <<current_work_state>>
    /\ UNCHANGED <<auth_status, gnss_auth_status, gnss_warning, simVars,
                   parseVars, loopVars, buildVars, mainVars, inflight,
                   stopped>>

\* current_work_state.store(...) of the value computed from the load
ToggleStore ==
    /\ program = "part_000"
    /\ loaded # <<>>
    /\ current_work_state' = Toggle(loaded[1])
    /\ loaded' = <<>>
    /\ UNCHANGED <<program, running, pcMain, counter, lastAuth,
                   tcClientStarted, polls>>
    /\ UNCHANGED <<auth_status, gnss_auth_status, gnss_warning, simVars,
                   parseVars, buildVars, mainVars, inflight, stopped>>

NextToggle == \/ ToggleLoad
              \/ ToggleStore
              \/ SensorRequestValue
              \/ SensorValueCommand

\* static std::atomic<std::int32_t> current_work_state = 0
InitToggle == InitSession /\ program = "part_000" /\ current_work_state = 0

SpecToggle == InitToggle /\ [][NextToggle]_vars

(***************************************************************************)
(* Claims about the simulator (SpecSim)                                    *)
(***************************************************************************)
NumberOfSections == Len(sectionSetpointStates)
EncodedSections  == IF NumberOfSections < 16 THEN NumberOfSections ELSE 16
AnySetpointOn == \E i \in 1..NumberOfSections : sectionSetpointStates[i]
AnySwitchOn   == \E i \in 1..NumberOfSections : sectionSwitchStates[i]
BoolValue(b)  == IF b THEN 1 ELSE 0

\* the 2-bit code at bits [2i, 2i+1] of the 32-bit pattern of the int32 w,
\* read off the pattern's 16-bit halves
Field(w, i) ==
    LET u == ToU32(w)
    IN  IF i < 8 THEN (u.lo \div 4^i) % 4 ELSE (u.hi \div 4^(i - 8)) % 4

IsControlWrite(l) == l.op = "write" /\ l.ddi \in ControlStateDDIs

\* C1: the mode flag starts as Auto; a step changes it only if it is a write
\* of SectionControlState or PrescriptionControlState; such a write leaves
\* Auto for a nonzero payload and Manual for a zero payload; and a read of
\* either control-state DDI returns 1 in Auto and 0 in Manual, so the value
\* of the last control-state write until the next one.
C1_ModeFlag ==
    /\ isAutoMode = TRUE
    /\ [][isAutoMode' # isAutoMode => IsControlWrite(last')]_vars
    /\ [][IsControlWrite(last') => isAutoMode' = (last'.arg # 0)]_vars
    /\ [](last.op = "read" /\ last.ddi \in ControlStateDDIs
            => last.value = BoolValue(isAutoMode))

C1_Witness ==
    /\ last.op = "read"
    /\ last.ddi = PrescriptionControlState
    /\ last.value = 0
    /\ ~isAutoMode

\* C2: for every section index below the section count, the actual state is
\* the setpoint state in Auto and the switch state in Manual, as computed by
\* get_section_actual_state and as returned by a call of it.
C2_ActualState ==
    /\ \A i \in 0..(NumberOfSections - 1) :
          get_section_actual_state(i) =
             IF isAutoMode THEN sectionSetpointStates[i + 1]
                           ELSE sectionSwitchStates[i + 1]
    /\ (last.op = "get_actual" /\ last.ret)
          => last.value = BoolValue(IF isAutoMode
                                    THEN sectionSetpointStates[last.arg + 1]
                                    ELSE sectionSwitchStates[last.arg + 1])

C2_Witness ==
    /\ last.op = "get_actual"
    /\ last.ret
    /\ ~isAutoMode
    /\ sectionSwitchStates[last.arg + 1]
    /\ ~sectionSetpointStates[last.arg + 1]
    /\ last.value = 1

\* C3: a read of Actual Work State returns 1 exactly when a setpoint is on
\* in Auto, and exactly when a switch is on in Manual; right after a
\* control-state write the value a read would return follows the payload
\* (nonzero: setpoints, zero: switches), and right after a switch change in
\* Manual it follows the switches, with no write in between.
C3_ModeGating ==
    /\ (last.op = "read" /\ last.ddi = ActualWorkState)
          => last.value = BoolValue(IF isAutoMode THEN AnySetpointOn
                                                  ELSE AnySwitchOn)
    /\ IsControlWrite(last)
          => ActualWorkStateValue = BoolValue(IF last.arg # 0 THEN AnySetpointOn
                                                              ELSE AnySwitchOn)
    /\ (last.op = "switch" /\ ~isAutoMode)
          => ActualWorkStateValue = BoolValue(AnySwitchOn)

C3_Witness ==
    /\ last.op = "read"
    /\ last.ddi = ActualWorkState
    /\ last.value = 1
    /\ ~isAutoMode
    /\ ~AnySetpointOn

\* C4: writing back the word a Setpoint Condensed Work State read returns
\* leaves every setpoint as it is; and after a write of a word W a read
\* returns a word whose code at every encoded section is 01 exactly when
\* the code of W there is 01.
C4_RoundTrip ==
    /\ DecodeSetpoints(sectionSetpointStates, SetpointCondensedValue, 0)
          = sectionSetpointStates
    /\ (last.op = "read" /\ last.ddi = SetpointCondensedWorkState1_16)
          => DecodeSetpoints(sectionSetpointStates, last.value, 0)
                = sectionSetpointStates
    /\ (last.op = "write" /\ last.ddi = SetpointCondensedWorkState1_16)
          => \A i \in 0..(EncodedSections - 1) :
                (Field(SetpointCondensedValue, i) = 1) <=> (Field(last.arg, i) = 1)

C4_Witness ==
    /\ last.op = "write"
    /\ last.ddi = SetpointCondensedWorkState1_16
    /\ NumberOfSections = 16
    /\ Field(last.arg, 0) = 3
    /\ Field(last.arg, 15) = 1
    /\ SetpointCondensedValue = 4^15 + 4^14 + (4^14 - 4) \div 3

\* C5: the word a condensed work state read returns has, at every position
\* i of 0..15, the code 01 for a section that is on, 00 for one that is off
\* and 11 for a position at or past the section count; 10 never occurs.
C5_EncodeLayout ==
    (last.op = "read" /\ last.ddi \in {ActualCondensedWorkState1_16,
                                        SetpointCondensedWorkState1_16})
       => \A i \in 0..15 :
             /\ Field(last.value, i) # 2
             /\ Field(last.value, i) =
                   IF i >= NumberOfSections THEN 3
                   ELSE IF last.ddi = SetpointCondensedWorkState1_16
                        THEN BoolValue(sectionSetpointStates[i + 1])
                        ELSE BoolValue(IF isAutoMode
                                       THEN sectionSetpointStates[i + 1]
                                       ELSE sectionSwitchStates[i + 1])

C5_Witness ==
    /\ last.op = "read"
    /\ last.ddi = ActualCondensedWorkState1_16
    /\ NumberOfSections = 2
    /\ ~isAutoMode
    /\ sectionSetpointStates = <<TRUE, FALSE>>
    /\ last.value = -12

\* C6: a write of Setpoint Condensed Work State sets every setpoint below
\* min(section count, 16) to whether its code in the word is 01 (false for
\* 00, 10 and 11), changes nothing else, and any word with the same codes
\* below the section count has the same effect.
C6_Decode ==
    [][(last'.op = "write" /\ last'.ddi = SetpointCondensedWorkState1_16)
         => /\ Len(sectionSetpointStates') = NumberOfSections
            /\ \A i \in 0..(NumberOfSections - 1) :
                  sectionSetpointStates'[i + 1] =
                     IF i < 16 THEN Field(last'.arg, i) = 1
                               ELSE sectionSetpointStates[i + 1]
            /\ UNCHANGED <<sectionSwitchStates, targetRate,
                           setpointWorkState, isAutoMode, auth_status>>
            /\ \A w \in Words :
                  (\A i \in 0..(EncodedSections - 1) :
                       Field(w, i) = Field(last'.arg, i))
                  => DecodeSetpoints(sectionSetpointStates, w, 0)
                        = sectionSetpointStates']_vars

C6_Witness ==
    /\ last.op = "write"
    /\ last.ddi = SetpointCondensedWorkState1_16
    /\ last.arg < 0
    /\ Field(last.arg, 1) = 2
    /\ NumberOfSections = 17
    /\ sectionSetpointStates[1]
    /\ ~sectionSetpointStates[2]

(***************************************************************************)
(* Claims about the foreground loops (SpecLoop)                            *)
(***************************************************************************)
\* C7: in the foreground loop of each program an iteration calls
\* on_value_changed_trigger for the auth DDI exactly when the auth value it
\* reads differs from the value observed last, which is the value the
\* iteration before it read; so the reads 0, 0, 1, 1, 0 after an observed 0
\* give notifications at the third and the fifth iteration only.
C7_EdgeTriggered ==
    /\ \A k \in 1..Len(polls) :
          /\ polls[k].notified <=> (polls[k].read # polls[k].before)
          /\ k > 1 => polls[k].before = polls[k - 1].read
    /\ (Len(polls) = 5 /\ polls[1].before = 0
          /\ [k \in 1..5 |-> polls[k].read] = <<0, 0, 1, 1, 0>>)
       => [k \in 1..5 |-> polls[k].notified]
             = <<FALSE, FALSE, TRUE, FALSE, TRUE>>

(***************************************************************************)
(* Claims about the sentence parser (SpecParse)                            *)
(***************************************************************************)
IsHexDigit(c) == c \in (48..57) \cup (65..70) \cup (97..102)
HexDigitValue(c) ==
    IF c \in 48..57 THEN c - 48 ELSE IF c \in 65..70 THEN c - 55 ELSE c - 87

\* the XOR of the bytes at positions 1 .. stop - 1: bit k of it is the
\* parity of the number of those bytes that have bit k set
XorOfBytes(text, stop) ==
    LET bit(k) == Cardinality({i \in 1..(stop - 1) :
                                  (text[i + 1] \div 2^k) % 2 = 1}) % 2
    IN  bit(0) + 2 * bit(1) + 4 * bit(2) + 8 * bit(3)
        + 16 * bit(4) + 32 * bit(5) + 64 * bit(6) + 128 * bit(7)

StarOf(text) == find(text, Ascii["*"])
BadTag(text) == Len(text) < 5 \/ SubSeq(text, 1, 5) # PHTG
NoTrailer(text) == StarOf(text) = npos \/ Len(text) - StarOf(text) - 1 < 2
HexTrailer(text) ==
    /\ ~NoTrailer(text)
    /\ IsHexDigit(text[StarOf(text) + 2])
    /\ IsHexDigit(text[StarOf(text) + 3])
TrailerByte(text) ==
    16 * HexDigitValue(text[StarOf(text) + 2])
       + HexDigitValue(text[StarOf(text) + 3])
ChecksumMismatch(text) ==
    HexTrailer(text) /\ TrailerByte(text) # XorOfBytes(text, StarOf(text))
\* fewer than six comma-separated fields between position 6 and the '*'
FewFields(text) ==
    /\ StarOf(text) >= 6
    /\ Cardinality({i \in 6..(StarOf(text) - 1) : text[i + 1] = Ascii[","]}) < 5
RejectedLine(text) ==
    BadTag(text) \/ NoTrailer(text) \/ ChecksumMismatch(text) \/ FewFields(text)

C9_NoErrorSurfaces ==
    /\ pcParse # "threw"
    /\ outcome \in {"none", "ignored", "rejected", "accepting", "accepted"}

\* C10: validate_checksum returns true exactly when the sentence has a '*'
\* with at least two characters behind the first one, these two are
\* hexadecimal digits, and the byte they denote is the XOR of the bytes
\* between the leading '$' and the '*'; otherwise it returns false.
C10_ChecksumExact ==
    checksumResult \notin {"none", "not_called"}
       => checksumResult =
             IF HexTrailer(line)
                /\ TrailerByte(line) = XorOfBytes(line, StarOf(line))
             THEN "true" ELSE "false"

\* C11: when validate_checksum is called on a correctly checksummed sentence
\* in which one byte between the '$' and the '*' was replaced by a different
\* byte (a ',' or a '*' included) and the checksum was not recomputed, it
\* returns false.
C11_MutationDetected ==
    (line \in CorruptedLines /\ checksumResult \notin {"none", "not_called"})
       => checksumResult = "false"

\* the integer a decimal text denotes, an empty text denoting 0
RECURSIVE DecimalDigits(_, _)
DecimalDigits(text, acc) ==
    IF Len(text) = 0 THEN acc
    ELSE DecimalDigits(Tail(text), 10 * acc + (Head(text) - Ascii["0"]))
DecimalOf(token) ==
    LET text == Bytes(token)
    IN  IF Len(text) = 0 THEN 0
        ELSE IF Head(text) = Ascii["-"] THEN 0 - DecimalDigits(Tail(text), 0)
        ELSE DecimalDigits(text, 0)
\* six fields free of ',' and '*' whose last two are empty or decimal
NumberTokens == {<<>>, <<"0">>, <<"1">>, <<"3">>, <<"7">>, <<"-", "1">>}
SixFields ==
    { <<date, FieldA, FieldA, FieldA, auth, warn>> :
         date \in DateTokens, auth \in NumberTokens, warn \in NumberTokens }

SixFieldSentences == { <<Sentence(Tagged(f), "good"), f>> : f \in SixFields }

\* C12: for six fields free of ',' and '*', the sentence
\* $PHTG,<f1>,...,<f6>*<CS> with a correct checksum is accepted and the
\* parsed record holds exactly these fields, an empty auth result or
\* warning field (also an empty last field right before the '*') being 0.
C12_ParseRoundTrip ==
    \A s \in SixFieldSentences :
       (line = s[1] /\ pcParse \in {"returned", "threw"})
          => /\ outcome = "accepted"
             /\ phtg.date = Bytes(s[2][1])
             /\ phtg.time = Bytes(s[2][2])
             /\ phtg.system = Bytes(s[2][3])
             /\ phtg.service = Bytes(s[2][4])
             /\ phtg.auth_result = DecimalOf(s[2][5])
             /\ phtg.warning = DecimalOf(s[2][6])

\* the bytes of a line between index 6 and its first '*'
BeforeStar(text) ==
    IF StarOf(text) > 6 THEN SubSeq(text, 7, StarOf(text)) ELSE <<>>

\* C13: for every accepted line the stored auth result and warning are read
\* from the bytes between index 6 and the first '*' only; no byte at or
\* behind the '*' contributes to them, also when the '*' is at index 5.
C13_OnlyBeforeStar ==
    outcome \in {"accepting", "accepted"}
       => LET tokens == Tokens(BeforeStar(line))
          IN  /\ Len(tokens) >= 6
              /\ phtg.auth_result = IntField(tokens[5]).value
              /\ phtg.warning = IntField(tokens[6]).value

\* C14: an accepted sentence is published by two separate stores, the auth
\* result first and the warning second: no step changes both values, the
\* step that accepts stores the new auth result and leaves the warning, the
\* warning only changes in the step behind it, when the auth result already
\* is that of the same sentence, and once the call has returned both values
\* are those of the sentence.
C14_AuthBeforeWarning ==
    /\ [][/\ ~(gnss_auth_status' # gnss_auth_status
               /\ gnss_warning' # gnss_warning)
          /\ (pcParse = "call" /\ pcParse' = "store_warning")
                => /\ gnss_auth_status' = phtg'.auth_result
                   /\ UNCHANGED gnss_warning
          /\ gnss_auth_status' # gnss_auth_status
                => pcParse = "call" /\ pcParse' = "store_warning"
          /\ gnss_warning' # gnss_warning
                => /\ pcParse = "store_warning"
                   /\ gnss_auth_status = phtg.auth_result
                   /\ gnss_warning' = phtg.warning
                   /\ UNCHANGED gnss_auth_status]_vars
    /\ [](outcome = "accepted"
             => /\ gnss_auth_status = phtg.auth_result
                /\ gnss_warning = phtg.warning)
\* between the two stores: the auth result of the new sentence next to the
\* warning of the sentence before it
C14_Witness ==
    /\ pcParse = "store_warning"
    /\ phtg.auth_result = 1
    /\ phtg.warning = 0
    /\ gnss_auth_status = 1
    /\ gnss_warning = 3

(***************************************************************************)
(* Claims about the callbacks (SpecSession)                                *)
(***************************************************************************)
IsSensorRead(l) == program \in SensorPrograms /\ l.op = "read"
IsAuthRead(l) ==
    IsSensorRead(l) /\ l.ddi = DDI_AUTH_RESULT /\ l.element = ELEMENT_NUMBER
Accepts == pcParse = "call" /\ pcParse' = "store_warning"

\* C15: in tag2 and part_000 a read of the auth DDI 65432 with element
\* number 1 returns the auth result of the sentence accepted last, or 0 when
\* none was accepted yet, however parser calls and reads interleave: the
\* stored auth result starts at 0, a step that accepts a sentence sets it to
\* the auth result of that sentence, no other step changes it, and every
\* such read returns it; and once the sentence
\* $PHTG,230101,120000,GAL,RTK,1,0 with its checksum has been processed
\* the stored value is 1.
C15_AuthRead ==
    /\ gnss_auth_status = 0
    /\ [][/\ Accepts => gnss_auth_status' = phtg'.auth_result
          /\ ~Accepts => UNCHANGED gnss_auth_status
          /\ (last' # last /\ IsAuthRead(last'))
                => last'.value = gnss_auth_status /\ last'.ret]_vars
    /\ []((line = ExampleSentence /\ pcParse \in {"store_warning", "returned"})
             => gnss_auth_status = 1)
\* the read behind the example sentence
C15_Witness ==
    /\ line = ExampleSentence
    /\ pcParse = "returned"
    /\ outcome = "accepted"
    /\ gnss_warning = 0
    /\ IsAuthRead(last)
    /\ last.value = 1

\* C16: in tag2 a read with an element number other than 1 sets the value
\* to 0 and returns true, for every DDI, the auth DDI while the stored auth
\* result is not 0 included.
C16_ElementScoping ==
    [][(program = "tag2" /\ last' # last /\ last'.op = "read"
           /\ last'.element # ELEMENT_NUMBER)
          => last'.value = 0 /\ last'.ret]_vars
C16_Witness ==
    /\ program = "tag2"
    /\ gnss_auth_status = 7
    /\ last.op = "read"
    /\ last.element = 2
    /\ last.ddi = DDI_AUTH_RESULT
    /\ last.arg = CallerValue
    /\ last.value = 0
    /\ last.ret

\* the DDIs without an entry of their own in the read switch of a program
\* (Request Default Process Data and Effective Total Time have an entry
\* only in part_000, where it stores 0), and the entries of the write
\* switch of part_001
ZeroDDIs(prog) ==
    {UnknownDDI, RequestDefaultProcessData, EffectiveTotalTime}
       \cup (IF prog = "tag2" THEN {ActualWorkState} ELSE {})
WriteTable(prog) ==
    IF prog = "part_001"
    THEN {SetpointCondensedWorkState1_16, SetpointVolumePerAreaApplicationRate,
          SetpointWorkState, PrescriptionControlState, SectionControlState}
    ELSE {}
\* a call of the callback with the context the program dispatches on
Dispatched(l) == program \in SensorPrograms \/ l.ctx = "sim"

\* C17: in each of the three programs a read of a DDI that has no entry in
\* the read switch, and a read of Request Default Process Data or Effective
\* Total Time, gives the value 0; a write of a DDI that has no entry in the
\* write switch changes no field of the simulator and no shared value and
\* returns true.
C17_UnknownDDI ==
    [][/\ (last' # last /\ last'.op = "read" /\ Dispatched(last')
              /\ last'.ddi \in ZeroDDIs(program))
             => last'.value = 0 /\ last'.ret
       /\ (last' # last /\ last'.op = "write"
              /\ last'.ddi \notin WriteTable(program))
             => /\ UNCHANGED <<sectionSetpointStates, sectionSwitchStates,
                               targetRate, setpointWorkState, isAutoMode>>
                /\ UNCHANGED <<auth_status, gnss_auth_status, gnss_warning,
                               current_work_state>>
                /\ last'.ret]_vars
\* an unknown write on a simulator that has left its initial state
C17_Witness ==
    /\ program = "part_001"
    /\ last.op = "write"
    /\ last.ctx = "sim"
    /\ last.ddi = UnknownDDI
    /\ last.ret
    /\ ~isAutoMode
    /\ targetRate # ToU32(InitialTargetRate)
    /\ AnySetpointOn

\* C18: request_value_command_callback and value_command_callback return
\* true for every element number, DDI, value and context pointer, a null
\* context in part_001 included, in every reachable state.
C18_AlwaysTrue ==
    last.op \in {"read", "write"} => last.ret = TRUE
\* a read in part_001 without a context: the value is left alone, the
\* result is true
C18_Witness ==
    /\ program = "part_001"
    /\ last.op = "read"
    /\ last.ctx = "null"
    /\ last.ddi = DDI_AUTH_RESULT
    /\ last.value = CallerValue
    /\ last.ret
    /\ ~isAutoMode

(***************************************************************************)
(* More claims about the simulator (SpecSim)                               *)
(***************************************************************************)
ActualOn(i) ==
    IF isAutoMode THEN sectionSetpointStates[i] ELSE sectionSwitchStates[i]
SectionsActuallyOn == {i \in 1..NumberOfSections : ActualOn(i)}

\* C19: a read of Actual Volume-per-Area Application Rate returns the
\* target rate when at least one section is actually on and 0 when none is,
\* never the rate times the number of sections that are on; a read of
\* Setpoint Volume-per-Area Application Rate returns the target rate
\* whatever the sections and the mode are.
C19_RateGating ==
    /\ (last.op = "read" /\ last.ddi = ActualVolumePerAreaApplicationRate)
          => last.value = IF SectionsActuallyOn # {} THEN ToI32(targetRate)
                          ELSE 0
    /\ (last.op = "read" /\ last.ddi = SetpointVolumePerAreaApplicationRate)
          => last.value = ToI32(targetRate)
\* two sections on, and the rate is read once, not twice
C19_Witness ==
    /\ last.op = "read"
    /\ last.ddi = ActualVolumePerAreaApplicationRate
    /\ Cardinality(SectionsActuallyOn) = 2
    /\ targetRate = ToU32(InitialTargetRate)
    /\ last.value = InitialTargetRate

(***************************************************************************)
(* Claims about the builder (SpecBuild)                                    *)
(***************************************************************************)
AddsMade == [i \in 1..Len(adds) |-> Step(adds[i].op, adds[i].id)]
EveryAddTrue == \A i \in 1..Len(adds) : adds[i].result

\* C20: in each create_ddop that was given a pool, whichever adds fail,
\* every add of the text has been made, in the order of the text, when the
\* adds are over, and the call returns true exactly when every add returned
\* true (and false otherwise).
C20_NoShortCircuit ==
    (~pool.null /\ buildResult # "aborted")
       => /\ pcBuild \in {"wire", "done"} => AddsMade = BuildSteps(program)
          /\ pcBuild = "done"
                => buildResult = IF EveryAddTrue THEN "true" ELSE "false"

\* C21: when the lookup of an element finds no object, the links of that
\* element are skipped and create_ddop runs to its end and returns its
\* flag; no child reference is appended through an element that is not in
\* the pool.
C21_TolerantWiring ==
    /\ buildResult # "crashed"
    /\ \A i \in 1..Len(children) : InPool(pool.objects, children[i].element)
    /\ (pcBuild = "done" /\ ~pool.null /\ buildResult # "aborted")
          => buildResult = IF retVal THEN "true" ELSE "false"

\* C22: after a create_ddop call that returned true, the objects of the
\* pool have pairwise distinct object IDs, and every child reference of
\* every element names an object that was added to this pool.
C22_ReferentialIntegrity ==
    (pcBuild = "done" /\ buildResult = "true")
       => /\ \A i, j \in 1..Len(pool.objects) :
                i # j => ObjectID(program, pool.objects[i])
                            # ObjectID(program, pool.objects[j])
          /\ \A k \in 1..Len(children) :
                InPool(pool.objects, children[k].child)

\* C23: after a create_ddop call that returned true, every process data
\* object and every property object that was added to the pool is in the
\* child list of some element.
C23_FullyReferenced ==
    (pcBuild = "done" /\ buildResult = "true")
       => \A i \in 1..Len(adds) :
             (adds[i].result
                 /\ adds[i].op \in {"add_device_process_data",
                                    "add_device_property"})
                => \E k \in 1..Len(children) : children[k].child = adds[i].id

\* what one call on an empty pool leaves when every add succeeds
AllObjects(prog) ==
    [i \in 1..Len(BuildSteps(prog)) |-> BuildSteps(prog)[i].id]
AllChildren(prog) ==
    IF \E e \in TestedElements(prog) : ~InPool(AllObjects(prog), e)
    THEN <<>>
    ELSE SubSeq(BuildRefs(prog), 1,
                LinkedPrefix(AllObjects(prog), BuildRefs(prog), 1))

\* C24: create_ddop clears the pool first, so a call in which every add
\* succeeds, made on an empty pool or on the pool an earlier call left,
\* returns and leaves the objects and the ordered child references of a
\* single call: nothing of the earlier build survives or is there twice.
C24_Rebuild ==
    /\ [][(pcBuild \in {"idle", "done"} /\ pcBuild' = "add")
             => pool'.objects = <<>> /\ children' = <<>>]_vars
    /\ []((pcBuild = "done" /\ ~pool.null /\ buildResult # "aborted"
              /\ EveryAddTrue)
            => /\ buildResult = "true"
               /\ pool.objects = AllObjects(program)
               /\ children = AllChildren(program))

(***************************************************************************)
(* Claims about main and the export (SpecMain, SpecExport)                 *)
(***************************************************************************)
PoolUsed == \/ client.configured > 0
            \/ client.initialized > 0
            \/ exportResult # "none"

\* C25: the client is configured and initialized with the pool, and the
\* pool is exported, only after create_ddop returned true for it; after
\* false the program leaves the start of main or the loop without any of
\* the three; the pool is built and the client configured at most once
C25_FalsePoolUnused ==
    /\ [](PoolUsed => (pcBuild = "done" /\ buildResult = "true"))
    /\ []((pcBuild = "done" /\ buildResult = "false")
             => pcMain \in {"create", "exit", "done"})
    /\ [][(pcBuild = "done" /\ buildResult = "false")
             => UNCHANGED <<client, exportLog, exportResult, file>>]_vars
    /\ [](builds <= 1 /\ client.configured <= 1 /\ client.initialized <= 1)

C25_Witness ==
    /\ program = "part_001"
    /\ builds = 1
    /\ buildResult = "false"
    /\ pcMain = "done"
    /\ ~PoolUsed
(***************************************************************************)
(* Claims about the shared scalars (SpecAccess)                            *)
(***************************************************************************)
\* two threads are at the same scalar, one of them writes, and one of the
\* two accesses is not atomic
DataRace ==
    \E t, u \in Threads :
       /\ t # u
       /\ inflight[t] # NoAccess
       /\ inflight[u] # NoAccess
       /\ inflight[t].location = inflight[u].location
       /\ inflight[t].write \/ inflight[u].write
       /\ ~inflight[t].atomic \/ ~inflight[u].atomic

\* C26: every access to a scalar shared between the threads is an atomic
\* load or store, in all three programs, so no read of a callback races
\* with a plain write of another thread
C26_AtomicAccess ==
    /\ \A t \in Threads : inflight[t] # NoAccess => inflight[t].atomic
    /\ ~DataRace

(***************************************************************************)
(* Claims about the section count (SpecConstruct)                          *)
(***************************************************************************)
Constructed == last.op = "construct"

\* C27: a simulator constructed with a section count N from 1 to
\* MAX_NUMBER_SECTIONS_SUPPORTED holds N setpoint and N switch entries, so
\* that up to N sections can be on, get_number_of_sections returns N, and
\* create_ddop passes its assertion that the count is not zero
C27_SectionCountRange ==
    (Constructed /\ last.arg \in 1..MAX_NUMBER_SECTIONS_SUPPORTED)
       => /\ Len(sectionSetpointStates) = last.arg
          /\ Len(sectionSwitchStates) = last.arg
          /\ get_number_of_sections = last.arg
          /\ buildResult # "aborted"

(***************************************************************************)
(* Claims about the export (SpecExport)                                    *)
(***************************************************************************)
Occurrences(log, what) == Cardinality({i \in 1..Len(log) : log[i] = what})

\* C28: export_ddop_to_xml returns false, writes nothing and tries nothing
\* twice when the pool is null, the XML is not generated or the file is not
\* opened; when it returns true the generated content is in the file
C28_ExportFailure ==
    /\ [][file' # file => exportResult' = "true"]_vars
    /\ [](exportResult = "false"
            => exportLog \in {<<>>, <<"generate">>, <<"generate", "open">>})
    /\ [](\A what \in {"generate", "open", "write"} :
             Occurrences(exportLog, what) <= 1)
    /\ [](exportResult = "true"
            => /\ exportLog = <<"generate", "open", "write", "close">>
               /\ file = "content")
(***************************************************************************)
(* Claims about what a write changes (SpecWrite)                           *)
(***************************************************************************)
\* the setpoint entries a step has changed, counted from 0
ChangedSetpoints ==
    {i \in 0..(Len(sectionSetpointStates) - 1) :
        sectionSetpointStates'[i + 1] # sectionSetpointStates[i + 1]}

\* C29: in part_001 a write of the condensed setpoint work state changes
\* only setpoint entries below min(section count, 16); a write of the
\* setpoint rate changes only targetRate; a write of the setpoint work
\* state changes only setpointWorkState, to true exactly for the value 1.
\* In tag2.cpp and part_000 a write changes no state
C29_WriteFrame ==
    [][last'.op = "write"
         => IF program = "part_001"
            THEN /\ UNCHANGED <<sectionSwitchStates, auth_status>>
                 /\ Len(sectionSetpointStates') = Len(sectionSetpointStates)
                 /\ last'.ddi = SetpointCondensedWorkState1_16
                      => /\ \A i \in ChangedSetpoints :
                               /\ i < Len(sectionSetpointStates)
                               /\ i < NUMBER_SECTIONS_PER_CONDENSED_MESSAGE
                         /\ UNCHANGED <<isAutoMode, targetRate,
                                        setpointWorkState>>
                 /\ last'.ddi = SetpointVolumePerAreaApplicationRate
                      => UNCHANGED <<sectionSetpointStates, isAutoMode,
                                     setpointWorkState>>
                 /\ last'.ddi = SetpointWorkState
                      => /\ UNCHANGED <<sectionSetpointStates, isAutoMode,
                                        targetRate>>
                         /\ setpointWorkState' = (last'.arg = 1)
            ELSE UNCHANGED <<sectionSetpointStates, sectionSwitchStates,
                             targetRate, setpointWorkState, isAutoMode,
                             auth_status, gnss_auth_status, gnss_warning,
                             current_work_state>>]_vars

C29_Witness ==
    /\ program = "part_001"
    /\ last.op = "write"
    /\ last.ddi = SetpointWorkState
    /\ last.arg = -1
    /\ ~setpointWorkState
    /\ Len(sectionSetpointStates) > NUMBER_SECTIONS_PER_CONDENSED_MESSAGE
    /\ sectionSetpointStates[NUMBER_SECTIONS_PER_CONDENSED_MESSAGE]
    /\ ~isAutoMode

(***************************************************************************)
(* Claims about what a read changes (SpecSession)                          *)
(***************************************************************************)
\* what a read of ddi gives in the current state
ReadNow(elementNumber, ddi, ctx) ==
    CASE program = "part_001" ->
           request_value_command_callback(elementNumber, ddi, CallerValue, ctx)
      [] program = "tag2" ->
           tag2_request_value_command_callback(elementNumber, ddi)
      [] program = "part_000" ->
           part_000_request_value_command_callback(elementNumber, ddi)

ReadElements(l) == IF program = "part_001" THEN Elements ELSE {l.element}

ReadContext(l) == IF program = "part_001" THEN l.ctx ELSE "sim"

\* C30: a read changes no setpoint, no switch state, not the mode, the
\* target rate or the work state setpoint, and none of the shared auth,
\* warning and work state values.  It returns what the state it starts in
\* gives for the DDI, and that state is the one it leaves, so a second read
\* of the same DDI directly behind it returns the same value
C30_ReadFrame ==
    [][(last' # last /\ last'.op = "read")
         => /\ UNCHANGED <<sectionSetpointStates, sectionSwitchStates,
                           targetRate, setpointWorkState, isAutoMode>>
            /\ UNCHANGED <<auth_status, gnss_auth_status, gnss_warning,
                           current_work_state>>
            /\ \A ddi \in ReadDDIs \cup SessionDDIs, ctx \in {"sim", "null"},
                  elementNumber \in Elements \cup SessionElements :
                  (ddi = last'.ddi /\ ctx = ReadContext(last')
                      /\ elementNumber \in ReadElements(last'))
                    => ReadNow(elementNumber, ddi, ctx) = last'.value]_vars

C30_Witness ==
    /\ program = "part_001"
    /\ last.op = "read"
    /\ last.ctx = "sim"
    /\ last.ddi = SetpointVolumePerAreaApplicationRate
    /\ last.value = ToI32(targetRate)
    /\ targetRate # ToU32(InitialTargetRate)
    /\ ~isAutoMode
    /\ ~setpointWorkState

(***************************************************************************)
(* Claims about the target rate (SpecRate)                                 *)
(***************************************************************************)
IsRateRead(l)  == l.op = "read" /\ l.ddi = SetpointVolumePerAreaApplicationRate
IsRateWrite(l) == l.op = "write" /\ l.ddi = SetpointVolumePerAreaApplicationRate

\* C31: a write of the setpoint rate with any int32 v, the negative ones and
\* INT_MIN included, followed by a read of the same DDI returns v, although
\* the rate is kept as a uint32; the rate starts at 100000, only a write of
\* the setpoint rate changes it, and a read that finds it there returns
\* 100000
C31_RateRoundTrip ==
    /\ targetRate = ToU32(InitialTargetRate)
    /\ [][(IsRateWrite(last) /\ IsRateRead(last'))
             => last'.value = last.arg]_vars
    /\ [][~IsRateWrite(last') => targetRate' = targetRate]_vars
    /\ [][(IsRateRead(last') /\ targetRate = ToU32(InitialTargetRate))
             => last'.value = InitialTargetRate]_vars

C31_Witness ==
    /\ IsRateRead(last)
    /\ last.value = INT_MIN
    /\ targetRate = [hi |-> 32768, lo |-> 0]

(***************************************************************************)
(* Claims about setpoints kept while in Manual (SpecSim)                   *)
(***************************************************************************)
IsCondensedWrite(l) ==
    l.op = "write" /\ l.ddi = SetpointCondensedWorkState1_16

IsAutoWrite(l) ==
    l.op = "write" /\ l.ddi \in ControlStateDDIs /\ l.arg # 0

\* the actual states, and the reads made from them, are the same after the
\* step; the condensed read is tied to the actual states by CondensedIsActual
ActualReadsUnchanged ==
    /\ \A i \in 0..(NumberOfSections - 1) :
          get_section_actual_state(i)' = get_section_actual_state(i)
    /\ ActualWorkStateValue' = ActualWorkStateValue
    /\ get_actual_rate' = get_actual_rate

\* the Actual Condensed Work State read holds 01 or 00 for every section that
\* exists, by its actual state, and 11 for the others
CondensedIsActual ==
    \A i \in 0..(NUMBER_SECTIONS_PER_CONDENSED_MESSAGE - 1) :
       And3(Sar(ActualCondensedValue, 2 * i)) =
          IF i >= NumberOfSections THEN NotInstalledCode
          ELSE IF get_section_actual_state(i) THEN 1 ELSE 0

\* C32: a condensed setpoint write received in Manual updates the setpoint
\* array and changes no actual section state and no Actual Condensed Work
\* State, Actual Work State or actual rate read; the setpoints stay as
\* written until the next such write, and after a control-state write with
\* a nonzero payload the actual states are those setpoints; a switch toggle
\* made in Auto changes no read result
C32_DeferredSetpoints ==
    /\ []CondensedIsActual
    /\ [][(IsCondensedWrite(last') /\ ~isAutoMode)
             => /\ sectionSetpointStates' =
                      DecodeSetpoints(sectionSetpointStates, last'.arg, 0)
                /\ ActualReadsUnchanged
                /\ UNCHANGED <<isAutoMode, sectionSwitchStates>>]_vars
    /\ [][~IsCondensedWrite(last')
             => sectionSetpointStates' = sectionSetpointStates]_vars
    /\ [][IsAutoWrite(last')
             => \A i \in 0..(NumberOfSections - 1) :
                   get_section_actual_state(i)' = sectionSetpointStates[i + 1]]_vars
    /\ [][(last'.op = "switch" /\ isAutoMode)
             => /\ ActualReadsUnchanged
                /\ UNCHANGED <<sectionSetpointStates, targetRate,
                               setpointWorkState, isAutoMode, auth_status>>]_vars

C32_Witness ==
    /\ IsCondensedWrite(last)
    /\ ~isAutoMode
    /\ AnySetpointOn
    /\ ActualWorkStateValue = 0
    /\ get_actual_rate = ToU32(0)
(***************************************************************************)
(* Claims about the notifications of the sensor programs (SpecLoopLive)    *)
(***************************************************************************)
InSensorLoop == program \in SensorPrograms /\ pcMain \in {"test", "body"}

LatestPoll == polls[Len(polls)]

\* a stored value v that differs from the value observed last is observed,
\* unless it is replaced or the loop is told to stop
Observes(v) ==
    (InSensorLoop /\ gnss_auth_status = v /\ lastAuth # v)
       ~> (lastAuth = v \/ gnss_auth_status # v \/ ~running)

\* C33: in tag2.cpp and part_000, a stored auth result that differs from the
\* value observed last and stays is eventually notified and becomes the
\* value observed last while the loop keeps running.  A poll notifies
\* exactly when the value it reads differs from the value observed last,
\* whatever was stored in between, so a value that has changed and come back
\* between two polls is not notified, and every notification has a stored
\* value that differs from the one read by the poll before it: there are
\* never more notifications than stores that change the value
C33_NotificationLiveness ==
    /\ \A v \in {0, 1} : Observes(v)
    /\ [][(program \in SensorPrograms /\ polls' # polls)
             => /\ LatestPoll'.before = lastAuth
                /\ LatestPoll'.read = gnss_auth_status
                /\ LatestPoll'.notified = (gnss_auth_status # lastAuth)
                /\ lastAuth' = gnss_auth_status]_vars
    /\ [][(InSensorLoop /\ lastAuth' # lastAuth)
             => (polls' # polls /\ LatestPoll'.notified)]_vars
    /\ [][(program \in SensorPrograms /\ pcMain = "body"
              /\ gnss_auth_status = lastAuth /\ pcMain' # pcMain)
             => (lastAuth' = lastAuth
                 /\ (polls' # polls => ~LatestPoll'.notified))]_vars

C33_Witness ==
    /\ program = "part_000"
    /\ running
    /\ Len(polls) >= 3
    /\ LatestPoll.notified
    /\ LatestPoll.read = 1
    /\ lastAuth = 1
    /\ ~polls[Len(polls) - 1].notified
    /\ polls[Len(polls) - 2].notified

(***************************************************************************)
(* Claims about the shutdown (SpecLoopLive)                                *)
(***************************************************************************)
Terminated == \E k \in 1..Len(stopped) : stopped[k] = "terminate"

\* the iteration in progress can be completed; the cap on the counter of
\* part_001 is not part of the program
CanFinish == \/ pcMain = "test"
             \/ (pcMain = "body"
                   /\ (program = "part_001" => counter < MaxCounter))

C35_WorkStateBinary ==
    /\ current_work_state = 0
    /\ [](current_work_state \in {0, 1})
    /\ [][current_work_state' # current_work_state
             => (loaded # <<>> /\ loaded' = <<>>)]_vars
    /\ [][(loaded # <<>> /\ loaded' = <<>>)
             => current_work_state' = 1 - current_work_state]_vars
    /\ []((last.op = "read" /\ last.ddi = ActualWorkState)
             => last.value \in {0, 1})
    /\ [][(last' # last /\ last'.op = "read" /\ last'.ddi = ActualWorkState)
             => last'.value = current_work_state]_vars

C35_Witness ==
    /\ program = "part_000"
    /\ last.op = "read"
    /\ last.ddi = ActualWorkState
    /\ last.value = 0
    /\ loaded = <<0>>
    /\ current_work_state = 0

=============================================================================
